---- MODULE Spec2Model ----
(***************************************************************************)
(* The message dispatcher of synnefo (src/logic/dispatcher.py): a          *)
(* Supervisor (main) that takes the pid lock file, forks the worker        *)
(* processes, forwards termination signals to them and reaps them, and the *)
(* Worker Processes (child / Dispatcher), each of which connects to the    *)
(* broker, declares the topology, consumes messages and drains on a signal.*)
(*                                                                         *)
(* The program is Python 2: a signal handler runs in the main thread at a  *)
(* bytecode boundary, a blocking system call interrupted by a signal       *)
(* raises OSError(EINTR), and callbacks registered with basic_consume are  *)
(* called from inside chan.wait().                                         *)
(***************************************************************************)
EXTENDS Naturals, Integers, Sequences, FiniteSets, TLC

\* ------------------------------------------------------------------ bounds

\* The number of workers main forks (option --workers, default 2).
NWorkers == 2
\* How many times one worker runs _init (the constructor's run included).
MaxInits == 2
\* How many termination signals the Supervisor's handler serves.
MaxParentSignals == 1
\* The longest settings.BINDINGS a worker is started with.
MaxBindings == 3

\* ----------------------------------------------------------- configuration

\* settings.BINDINGS: (queue, exchange, routing key, handler name).
Bindings ==
    << [queue |-> "q1", exchange |-> "e1", key |-> "rk1", handler |-> "known"],
       [queue |-> "q2", exchange |-> "e1", key |-> "rk2", handler |-> "unknown"] >>

\* The names getattr(callbacks, name) resolves.
Callbacks == {"known", "dummy_proc"}

\* settings.EXCHANGES and settings.QUEUES, in list order.
Exchanges == << "e1", "e2" >>
Queues == << "q1", "q2" >>

Pids == 1..NWorkers

\* ------------------------------------------------------------------- state

VARIABLES
    lock,        \* the pid lock file: "free", "held", "released", "other"
    ppc,         \* where main is: "main", "admin", "debug", "acquire", "timeout",
                 \* "fork", "wait", "done", "raised", "killed"
    children,    \* the global list children
    widx,        \* position of the reap loop in children (1-based)
    reaped,      \* the pids whose waitpid has returned
    kills,       \* one record per run of _parent_handler
    forks,       \* how many times os.fork() has been called
    waitlog,     \* one entry per os.waitpid call that has ended: pid, outcome
    wpc,         \* where each worker is
    inits,       \* how many times the worker has entered _init
    bidx,        \* position of _init's binding loop (1-based)
    clienttags,  \* Dispatcher.clienttags
    chanId,      \* which channel self.chan is (0: none yet)
    consumers,   \* the consumer tags registered on the channel self.chan
    drainlog,    \* the broker calls the worker made after leaving the wait loop
    pendSig,     \* a termination signal is pending for the worker
    wexc,        \* the exception most recently raised in the worker
    wexit,       \* how the worker ended: "running", "returned", "raised"
    wstatus,     \* the worker's exit status (-1 while it runs)
    initlog,     \* what the worker's current run of _init has called and logged
    topoAfter,   \* the broker's topology at the end of each run of _init
    inHandler,   \* how many callback invocations are in progress in the worker
    bindings,    \* settings.BINDINGS
    bExchanges,  \* the exchanges the broker holds
    bQueues,     \* the queues the broker holds
    bBindings,   \* the (queue, exchange, routing key) bindings the broker holds
    other,       \* where the main of a second dispatcher on the same pid file is
    otherForks,  \* how many times the second dispatcher has called os.fork()
    admin,       \* the process of an administrative operation: which one (op),
                 \* where it is (pc), its loop position (idx), whether its
                 \* variable chan is an open channel (chanOpen), how many
                 \* connections it has open (conns), what it called (log),
                 \* and for drain_queue its argument (queue), its local
                 \* exch, whether its consumer is registered (consuming),
                 \* its counter (num_processed), the messages its callback
                 \* discarded, those ready in the queue, those published
    opts,        \* the options main parsed from the command line
    settingsDEBUG, \* settings.DEBUG
    mode,        \* the mode main has started ("none" before it chose)
    msgs,        \* the messages followed through the broker: where each is
    cur          \* the followed message the worker's running callback was
                 \* given (0: none, or a message that is not followed)

vars == << lock, ppc, children, widx, reaped, kills, forks, waitlog, wpc, inits, bidx,
           clienttags, chanId, consumers, drainlog, pendSig, wexc,
           wexit, wstatus, initlog, topoAfter, inHandler, bindings,
           bExchanges, bQueues, bBindings, other, otherForks, admin,
           opts, settingsDEBUG, mode, msgs, cur >>

supervisorVars == << lock, ppc, children, widx, reaped, kills, forks, waitlog >>
workerVars == << wpc, inits, bidx, clienttags, chanId, consumers, drainlog, wexc, wexit, wstatus,
                 initlog, topoAfter, inHandler >>
brokerVars == << bExchanges, bQueues, bBindings >>
\* What no step of the Supervisor or of a worker changes.
runVars == << other, otherForks, admin, opts, settingsDEBUG, mode >>
\* The followed messages.
msgVars == << msgs, cur >>
outsideVars == << bindings, runVars, msgVars >>

\* The options of a plain daemon start.
DaemonOpts ==
    [purge_queues |-> FALSE, purge_exchanges |-> FALSE, drain_queue |-> "",
     debug |-> FALSE]

\* No administrative operation is running.
NoAdmin ==
    [op |-> "none", pc |-> "idle", idx |-> 0, chanOpen |-> FALSE, conns |-> 0,
     log |-> << >>, queue |-> "", exch |-> "unset", consuming |-> FALSE,
     num_processed |-> 0, discarded |-> 0, ready |-> 0, pubs |-> << >>]

NoExc == [kind |-> "none", at |-> "none"]

InitPcs == {"connect", "backoff", "channel", "exchanges", "queues", "bind"}
ConsumePcs == {"wait", "handler"}

\* The three shutdown calls of Dispatcher.wait, in the order the code makes them.
DrainOrder == << "basic_cancel", "connection.close", "chan.close" >>

DrainPcs == {DrainOrder[k] : k \in 1..Len(DrainOrder)}

\* The worker state of the state machine INITIALIZING -> CONSUMING -> DRAINING
\* -> TERMINATED.
WorkerState(w) ==
    IF wpc[w] = "unborn" THEN "UNBORN"
    ELSE IF wpc[w] \in InitPcs THEN "INITIALIZING"
    ELSE IF wpc[w] \in ConsumePcs THEN "CONSUMING"
    ELSE IF wpc[w] \in DrainPcs THEN "DRAINING"
    ELSE "TERMINATED"

Init ==
    /\ lock = "free"
    /\ ppc = "acquire"
    /\ children = << >>
    /\ widx = 1
    /\ reaped = {}
    /\ kills = << >>
    /\ forks = 0
    /\ waitlog = << >>
    /\ wpc = [w \in Pids |-> "unborn"]
    /\ inits = [w \in Pids |-> 0]
    /\ bidx = [w \in Pids |-> 1]
    /\ clienttags = [w \in Pids |-> << >>]
    /\ chanId = [w \in Pids |-> 0]
    /\ consumers = [w \in Pids |-> {}]
    /\ drainlog = [w \in Pids |-> << >>]
    /\ pendSig = [w \in Pids |-> FALSE]
    /\ wexc = [w \in Pids |-> NoExc]
    /\ wexit = [w \in Pids |-> "running"]
    /\ wstatus = [w \in Pids |-> -1]
    /\ initlog = [w \in Pids |-> << >>]
    /\ topoAfter = [w \in Pids |-> << >>]
    /\ inHandler = [w \in Pids |-> 0]
    /\ bindings = Bindings
    /\ bExchanges = {}
    /\ bQueues = {}
    /\ bBindings = {}
    /\ other = "none"
    /\ otherForks = 0
    /\ admin = NoAdmin
    /\ opts = DaemonOpts
    /\ settingsDEBUG = FALSE
    /\ mode = "daemon"
    /\ msgs = << >>
    /\ cur = [w \in Pids |-> 0]


\* ------------------------------------------------------- exception routing

\* A wait loop without the socket.error clause.
WaitCatchNoSocket(e) ==
    IF e = "SystemExit" THEN "break"
    ELSE IF e = "AMQPConnectionException" THEN "reinit"
    ELSE "propagate"

\* Dispatcher.wait's try statement around chan.wait(): what becomes of an
\* exception of kind e raised inside chan.wait() (by the transport, by the
\* callback chan.wait() calls, or by _exit_handler).
WaitCatch(e) ==
    IF e = "SystemExit" THEN "break"
    ELSE IF e = "AMQPConnectionException" THEN "reinit"
    ELSE IF e = "socket.error" THEN "reinit"
    ELSE "propagate"

\* A connect loop with no try statement around amqp.Connection(...).
ConnectCatchNothing(e) == "propagate"

\* The try statement around amqp.Connection(...) in _init's connect loop.
ConnectCatch(e) ==
    IF e = "socket.error" THEN "retry" ELSE "propagate"

\* The argument of the sys.exit that follows child() in the forked process.
ChildReturnStatus == 1

\* The exit status of a process that an exception of kind e leaves through
\* sys.exit(main()): a bare SystemExit carries no code, anything else is a
\* traceback.
UncaughtStatus(e) ==
    IF e = "SystemExit" THEN 0 ELSE 1

\* What the statement the worker is in does with an exception of kind e.
Disposition(pc, e) ==
    IF pc \in ConsumePcs THEN WaitCatch(e)
    ELSE IF pc = "connect" THEN ConnectCatch(e)
    ELSE "propagate"

\* Exception e is raised in worker w where it now is, and unwinds; pend tells
\* whether a signal stays pending for the worker if it lives on (a process
\* that exits has none).
Unwind(w, e, pend) ==
    LET how == Disposition(wpc[w], e) IN
    /\ wexc' = [wexc EXCEPT ![w] = [kind |-> e, at |-> wpc[w]]]
    /\ pendSig' = [pendSig EXCEPT ![w] = (how # "propagate") /\ pend]
    /\ inHandler' = [inHandler EXCEPT ![w] = 0]
    /\ cur' = [cur EXCEPT ![w] = 0]
    /\ CASE how = "break" ->
               /\ wpc' = [wpc EXCEPT ![w] = DrainOrder[1]]
               /\ UNCHANGED << inits, wexit, wstatus >>
         [] how = "reinit" ->
               /\ inits[w] < MaxInits
               /\ wpc' = [wpc EXCEPT ![w] = "connect"]
               /\ inits' = [inits EXCEPT ![w] = @ + 1]
               /\ UNCHANGED << wexit, wstatus >>
         [] how = "retry" ->
               /\ wpc' = [wpc EXCEPT ![w] = "backoff"]
               /\ UNCHANGED << inits, wexit, wstatus >>
         [] OTHER ->
               /\ wpc' = [wpc EXCEPT ![w] = "exited"]
               /\ wexit' = [wexit EXCEPT ![w] = "raised"]
               /\ wstatus' = [wstatus EXCEPT ![w] = UncaughtStatus(e)]
               /\ UNCHANGED inits

\* ------------------------------------------------------------ the worker

\* The exceptions amqp.Connection(...) raises.
ConnectErrors == {"socket.error", "AMQPConnectionException"}
\* The exceptions a broker call on an open channel raises.
BrokerErrors == {"socket.error", "AMQPConnectionException", "AMQPChannelException"}
\* The exceptions a callback raises ("Exception": any other kind).
HandlerErrors == {"socket.error", "AMQPConnectionException", "Exception"}

\* amqp.Connection(...) succeeds.
ConnectOK(w) ==
    /\ wpc[w] = "connect"
    /\ wpc' = [wpc EXCEPT ![w] = "channel"]
    /\ UNCHANGED << inits, bidx, clienttags, chanId, consumers, drainlog, wexc, wexit, wstatus, pendSig >>
    /\ UNCHANGED << initlog, topoAfter, inHandler >>
    /\ UNCHANGED brokerVars
    /\ UNCHANGED supervisorVars
    /\ UNCHANGED outsideVars

\* amqp.Connection(...) raises.
ConnectRaise(w, e) ==
    /\ wpc[w] = "connect"
    /\ e \in ConnectErrors
    /\ Unwind(w, e, pendSig[w])
    /\ UNCHANGED << bidx, clienttags, chanId, consumers, drainlog >>
    /\ UNCHANGED << initlog, topoAfter >>
    /\ UNCHANGED brokerVars
    /\ UNCHANGED supervisorVars
    /\ UNCHANGED << bindings, runVars, msgs >>

\* time.sleep(1) returns and the loop tries again.
BackoffDone(w) ==
    /\ wpc[w] = "backoff"
    /\ wpc' = [wpc EXCEPT ![w] = "connect"]
    /\ UNCHANGED << inits, bidx, clienttags, chanId, consumers, drainlog, wexc, wexit, wstatus, pendSig >>
    /\ UNCHANGED << initlog, topoAfter, inHandler >>
    /\ UNCHANGED brokerVars
    /\ UNCHANGED supervisorVars
    /\ UNCHANGED outsideVars

\* self.chan = conn.channel(): a new channel, with no consumer on it.
OpenChannel(w) ==
    /\ wpc[w] = "channel"
    /\ wpc' = [wpc EXCEPT ![w] = "exchanges"]
    /\ chanId' = [chanId EXCEPT ![w] = inits[w]]
    /\ consumers' = [consumers EXCEPT ![w] = {}]
    /\ initlog' = [initlog EXCEPT ![w] = << >>]
    /\ UNCHANGED << inits, bidx, clienttags, drainlog, wexc, wexit,
                    wstatus, pendSig, topoAfter, inHandler >>
    /\ UNCHANGED brokerVars
    /\ UNCHANGED supervisorVars
    /\ UNCHANGED outsideVars

\* The entries a loop of calls op(name) over the list names adds to the log.
Calls(op, names) == [k \in 1..Len(names) |-> << op, names[k] >>]

\* The broker's topology as one value.
Topology(x, q, b) == [exchanges |-> x, queues |-> q, bindings |-> b]

\* The exchange_declare loop: a declaration of an exchange the broker already
\* holds with the same attributes changes nothing.
DeclareExchanges(w) ==
    /\ wpc[w] = "exchanges"
    /\ wpc' = [wpc EXCEPT ![w] = "queues"]
    /\ bExchanges' = bExchanges \cup {Exchanges[k] : k \in 1..Len(Exchanges)}
    /\ initlog' = [initlog EXCEPT ![w] = @ \o Calls("exchange_declare", Exchanges)]
    /\ UNCHANGED << inits, bidx, clienttags, chanId, consumers, drainlog, wexc, wexit, wstatus, pendSig,
                    topoAfter, inHandler >>
    /\ UNCHANGED << bQueues, bBindings >>
    /\ UNCHANGED supervisorVars
    /\ UNCHANGED outsideVars

\* A declaration that lets the broker name the queue, once per channel.
QueueNamePerChannel(w, q) == << q, chanId[w] >>

\* The name worker w's queue_declare passes for the configured queue q.
QueueName(w, q) == q

\* settings.QUEUE_DEBUG and settings.BINDINGS_DEBUG.
QueueDebug == "qdebug"
BindingsDebug ==
    << [queue |-> "qdebug", exchange |-> "e1", key |-> "#", handler |-> "dummy_proc"] >>

\* Dispatcher.debug: child() passes opts.debug, debug_mode() passes True and
\* runs only when opts.debug is set.
SelfDebug == opts.debug

\* A test that either flag satisfies.
DebugEnabledByEither == SelfDebug \/ settingsDEBUG

\* if self.debug and settings.DEBUG.
DebugEnabled == SelfDebug /\ settingsDEBUG

\* A binding list with the debug bindings put in front.
ExtendedInFront(bs, more) == more \o bs

\* bindings += settings.BINDINGS_DEBUG: the debug bindings go after the
\* bindings the list holds.
Extended(bs, more) == bs \o more

\* The queue_declare loop, then under the debug test the declaration of the
\* debug queue and bindings += settings.BINDINGS_DEBUG, which extends the
\* list settings.BINDINGS itself; the binding loop starts, and with no
\* binding to go through _init returns and the worker waits.
DeclareQueues(w) ==
    /\ wpc[w] = "queues"
    /\ bindings' = IF DebugEnabled THEN Extended(bindings, BindingsDebug) ELSE bindings
    /\ wpc' = [wpc EXCEPT ![w] = IF Len(bindings') = 0 THEN "wait" ELSE "bind"]
    /\ bidx' = [bidx EXCEPT ![w] = 1]
    /\ bQueues' = bQueues \cup {QueueName(w, Queues[k]) : k \in 1..Len(Queues)}
                          \cup (IF DebugEnabled THEN {QueueDebug} ELSE {})
    /\ initlog' = [initlog EXCEPT ![w] =
           @ \o Calls("queue_declare", Queues)
             \o (IF DebugEnabled THEN << << "queue_declare", QueueDebug >> >> ELSE << >>)]
    /\ topoAfter' = [topoAfter EXCEPT ![w] =
           IF Len(bindings') = 0
           THEN Append(@, Topology(bExchanges, bQueues', bBindings))
           ELSE @]
    /\ UNCHANGED << inits, clienttags, chanId, consumers, drainlog,
                    wexc, wexit, wstatus, pendSig, inHandler >>
    /\ UNCHANGED << bExchanges, bBindings >>
    /\ UNCHANGED supervisorVars
    /\ UNCHANGED << runVars, msgVars >>

\* The tag basic_consume returns: new on its channel.
NewTag(w) == << chanId[w], Cardinality(consumers[w]) + 1 >>

\* What one turn of the binding loop appends to self.clienttags.
RecordTag(tags, tag) == Append(tags, tag)

\* getattr(callbacks, binding[3]) finds the handler.
Resolves(b) == b.handler \in Callbacks

\* A binding loop that an unresolved handler name ends.
AfterUnresolvedBreak(i, n) == n + 1

\* The turn of the binding loop (of n turns) that follows turn i, whose
\* handler name did not resolve: `continue`.
AfterUnresolved(i, n) == i + 1

\* One turn of the binding loop: a binding whose handler does not resolve is
\* logged and skipped, any other is bound and consumed and its tag is
\* recorded. After the last binding _init returns and the worker waits.
BindOne(w) ==
    /\ wpc[w] = "bind"
    /\ bidx[w] <= Len(bindings)
    /\ LET i == bidx[w]
           b == bindings[i]
           next == IF Resolves(b) THEN i + 1 ELSE AfterUnresolved(i, Len(bindings))
       IN /\ IF Resolves(b)
             THEN /\ bBindings' = bBindings \cup {<< b.queue, b.exchange, b.key >>}
                  /\ consumers' = [consumers EXCEPT ![w] = @ \cup {NewTag(w)}]
                  /\ clienttags' = [clienttags EXCEPT ![w] = RecordTag(@, NewTag(w))]
                  /\ initlog' = [initlog EXCEPT ![w] =
                         @ \o << << "queue_bind", i >>, << "basic_consume", i, NewTag(w) >> >>]
             ELSE /\ initlog' = [initlog EXCEPT ![w] = Append(@, << "omitted", i >>)]
                  /\ UNCHANGED << bBindings, consumers, clienttags >>
          /\ bidx' = [bidx EXCEPT ![w] = next]
          /\ wpc' = [wpc EXCEPT ![w] = IF next > Len(bindings) THEN "wait" ELSE "bind"]
          /\ topoAfter' = [topoAfter EXCEPT ![w] =
                 IF next > Len(bindings)
                 THEN Append(@, Topology(bExchanges, bQueues, bBindings'))
                 ELSE @]
    /\ UNCHANGED << inits, chanId, drainlog, wexc, wexit, wstatus, pendSig, inHandler >>
    /\ UNCHANGED << bExchanges, bQueues >>
    /\ UNCHANGED supervisorVars
    /\ UNCHANGED outsideVars

\* conn.channel(), a declaration, queue_bind or basic_consume raises: nothing
\* in _init or around its call catches it.
InitRaise(w, e) ==
    /\ wpc[w] \in {"channel", "exchanges", "queues", "bind"}
    /\ e \in BrokerErrors
    /\ Unwind(w, e, pendSig[w])
    /\ UNCHANGED << bidx, clienttags, chanId, consumers, drainlog >>
    /\ UNCHANGED << initlog, topoAfter >>
    /\ UNCHANGED brokerVars
    /\ UNCHANGED supervisorVars
    /\ UNCHANGED << bindings, runVars, msgs >>

\* A worker whose deliveries are dispatched whether or not a callback is
\* running.
CanDeliverAnytime(w) == wpc[w] \in ConsumePcs

\* A delivery is dispatched to its callback by chan.wait(), which the wait
\* loop calls again only after the call before has returned.
CanDeliver(w) == wpc[w] = "wait"

\* A consumer registered with no_ack set: the broker forgets a message when
\* it delivers it.
NoAckSet == TRUE

\* The no_ack argument of _init's basic_consume(queue=..., callback=...):
\* not given, and amqplib's default is False.
NoAck == FALSE

\* What the broker holds of a followed message once it has delivered it on
\* channel c of worker w.
Delivered(m, w, c) ==
    [state |-> IF NoAck THEN "forgotten" ELSE "unacked", by |-> << w, c >>,
     deliveries |-> m.deliveries + 1]

\* The messages the broker can deliver: the followed ones that are ready, or
\* (0) one of those that are not followed.
Deliverable == {0} \cup {m \in DOMAIN msgs : msgs[m].state = "ready"}

\* chan.wait() receives a delivery and calls the callback.
Deliver(w) ==
    /\ CanDeliver(w)
    /\ consumers[w] # {}
    /\ wpc' = [wpc EXCEPT ![w] = "handler"]
    /\ inHandler' = [inHandler EXCEPT ![w] = @ + 1]
    /\ \E m \in Deliverable :
           /\ cur' = [cur EXCEPT ![w] = m]
           /\ msgs' = IF m = 0 THEN msgs
                      ELSE [msgs EXCEPT ![m] = Delivered(@, w, chanId[w])]
    /\ UNCHANGED << inits, bidx, clienttags, chanId, consumers, drainlog, wexc, wexit, wstatus, pendSig >>
    /\ UNCHANGED << initlog, topoAfter >>
    /\ UNCHANGED brokerVars
    /\ UNCHANGED supervisorVars
    /\ UNCHANGED << bindings, runVars >>

\* The callback returns, chan.wait() returns, and the loop waits again. The
\* callback has acknowledged the message it was given, or has not; the loop
\* itself acknowledges nothing.
HandlerReturn(w) ==
    /\ wpc[w] = "handler"
    /\ wpc' = [wpc EXCEPT ![w] = "wait"]
    /\ inHandler' = [inHandler EXCEPT ![w] = @ - 1]
    /\ cur' = [cur EXCEPT ![w] = 0]
    /\ \E ack \in (IF cur[w] = 0 THEN {FALSE} ELSE BOOLEAN) :
           msgs' = IF ack /\ msgs[cur[w]].state = "unacked"
                   THEN [msgs EXCEPT ![cur[w]].state = "acked"]
                   ELSE msgs
    /\ UNCHANGED << inits, bidx, clienttags, chanId, consumers, drainlog, wexc, wexit, wstatus, pendSig >>
    /\ UNCHANGED << initlog, topoAfter >>
    /\ UNCHANGED brokerVars
    /\ UNCHANGED supervisorVars
    /\ UNCHANGED << bindings, runVars >>

\* Whether channel c of worker w is gone for the broker: the process has
\* ended, or has replaced the connection by a new one, or has closed it.
ChannelGone(w, c) ==
    \/ wpc[w] = "exited"
    \/ chanId[w] # c
    \/ \E k \in 1..Len(drainlog[w]) : drainlog[w][k][1] \in {"connection.close", "chan.close"}

\* The broker puts a message that was delivered on a channel now gone, and
\* not acknowledged, back into its queue.
Requeue(m) ==
    /\ m \in DOMAIN msgs
    /\ msgs[m].state = "unacked"
    /\ ChannelGone(msgs[m].by[1], msgs[m].by[2])
    /\ msgs' = [msgs EXCEPT ![m].state = "ready"]
    /\ UNCHANGED cur
    /\ UNCHANGED << pendSig, bindings >>
    /\ UNCHANGED workerVars
    /\ UNCHANGED brokerVars
    /\ UNCHANGED supervisorVars
    /\ UNCHANGED runVars

\* The callback raises, inside chan.wait().
HandlerRaise(w, e) ==
    /\ wpc[w] = "handler"
    /\ e \in HandlerErrors
    /\ Unwind(w, e, pendSig[w])
    /\ UNCHANGED << bidx, clienttags, chanId, consumers, drainlog >>
    /\ UNCHANGED << initlog, topoAfter >>
    /\ UNCHANGED brokerVars
    /\ UNCHANGED supervisorVars
    /\ UNCHANGED << bindings, runVars, msgs >>

\* chan.wait() itself raises while the worker is blocked in it.
WaitRaise(w, e) ==
    /\ wpc[w] = "wait"
    /\ e \in BrokerErrors
    /\ Unwind(w, e, pendSig[w])
    /\ UNCHANGED << bidx, clienttags, chanId, consumers, drainlog >>
    /\ UNCHANGED << initlog, topoAfter >>
    /\ UNCHANGED brokerVars
    /\ UNCHANGED supervisorVars
    /\ UNCHANGED << bindings, runVars, msgs >>

\* The SIGTERM the Supervisor sent is delivered: _exit_handler raises
\* SystemExit in whatever statement the worker is executing.
ExitHandler(w) ==
    /\ pendSig[w]
    /\ wpc[w] \notin {"unborn", "exited"}
    /\ Unwind(w, "SystemExit", FALSE)
    /\ UNCHANGED << bidx, clienttags, chanId, consumers, drainlog >>
    /\ UNCHANGED << initlog, topoAfter >>
    /\ UNCHANGED brokerVars
    /\ UNCHANGED supervisorVars
    /\ UNCHANGED << bindings, runVars, msgs >>

\* What the drain call op adds to the worker's log of broker calls.
DrainCalls(w, op) ==
    IF op = "basic_cancel"
    THEN [k \in 1..Len(clienttags[w]) |-> << op, clienttags[w][k] >>]
    ELSE << << op >> >>

\* The position of a drain call in the order the code makes them.
DrainIndex(op) == CHOOSE k \in 1..Len(DrainOrder) : DrainOrder[k] = op

\* One of the three statements after the wait loop; after the last, wait()
\* and child() return and main calls sys.exit.
DrainStep(w) ==
    /\ wpc[w] \in DrainPcs
    /\ LET op == wpc[w]
           k == DrainIndex(op)
       IN /\ drainlog' = [drainlog EXCEPT ![w] = @ \o DrainCalls(w, op)]
          /\ consumers' = [consumers EXCEPT ![w] =
                 IF op = "basic_cancel"
                 THEN @ \ {clienttags[w][j] : j \in 1..Len(clienttags[w])}
                 ELSE @]
          /\ IF k < Len(DrainOrder)
             THEN /\ wpc' = [wpc EXCEPT ![w] = DrainOrder[k + 1]]
                  /\ UNCHANGED << wexit, wstatus, pendSig >>
             ELSE /\ wpc' = [wpc EXCEPT ![w] = "exited"]
                  /\ wexit' = [wexit EXCEPT ![w] = "returned"]
                  /\ wstatus' = [wstatus EXCEPT ![w] = ChildReturnStatus]
                  /\ pendSig' = [pendSig EXCEPT ![w] = FALSE]
    /\ UNCHANGED << inits, bidx, clienttags, chanId, wexc >>
    /\ UNCHANGED << initlog, topoAfter, inHandler >>
    /\ UNCHANGED brokerVars
    /\ UNCHANGED supervisorVars
    /\ UNCHANGED outsideVars

\* A termination signal that reaches the whole process group of w instead of
\* w alone: every live worker ends on the spot.
SignalProcessGroup(w) ==
    /\ wpc[w] \notin {"unborn", "exited"}
    /\ wpc' = [v \in Pids |->
                  IF wpc[v] \in {"unborn", "exited"} THEN wpc[v] ELSE "exited"]
    /\ wexit' = [v \in Pids |->
                  IF wpc[v] \in {"unborn", "exited"} THEN wexit[v] ELSE "raised"]
    /\ wstatus' = [v \in Pids |->
                  IF wpc[v] \in {"unborn", "exited"} THEN wstatus[v] ELSE 0]
    /\ UNCHANGED << inits, bidx, clienttags, chanId, consumers, drainlog >>
    /\ UNCHANGED << pendSig, wexc, initlog, topoAfter, inHandler >>
    /\ UNCHANGED brokerVars
    /\ UNCHANGED supervisorVars
    /\ UNCHANGED outsideVars

\* Someone outside the Supervisor sends a termination signal to a worker,
\* and _exit_handler raises SystemExit in whatever statement the worker is
\* executing.
SignalWorker(w) ==
    /\ wpc[w] \notin {"unborn", "exited"}
    /\ Unwind(w, "SystemExit", pendSig[w])
    /\ UNCHANGED << bidx, clienttags, chanId, consumers, drainlog >>
    /\ UNCHANGED << initlog, topoAfter >>
    /\ UNCHANGED brokerVars
    /\ UNCHANGED supervisorVars
    /\ UNCHANGED << bindings, runVars, msgs >>


\* --------------------------------------------------------- the supervisor

\* A lock file that whoever asks can take.
LockFreeAlways(l) == TRUE

\* No process holds the pid lock file: pidf.acquire() can create it.
LockFree(l) == l \in {"free", "released"}

\* pidf.acquire().
Acquire ==
    /\ ppc = "acquire"
    /\ LockFree(lock)
    /\ lock' = "held"
    /\ ppc' = "fork"
    /\ UNCHANGED << children, widx, reaped, kills, forks, waitlog, pendSig >>
    /\ UNCHANGED workerVars
    /\ UNCHANGED brokerVars
    /\ UNCHANGED outsideVars

\* A fork loop that makes up for the children that have exited.
ForkLoopRefills(i) == Cardinality({w \in Pids : wpc[w] \notin {"unborn", "exited"}}) < NWorkers

\* The condition of the fork loop, `while i < opts.workers`, after i turns.
ForkLoopGoesOn(i) == i < NWorkers

\* One turn of the fork loop, both sides of os.fork(): the parent records the
\* new pid; the child installs _exit_handler and enters child(), whose
\* Dispatcher constructor calls _init.
Fork ==
    /\ ppc = "fork"
    /\ ForkLoopGoesOn(Len(children))
    /\ forks' = forks + 1
    /\ LET pid == Len(children) + 1 IN
       /\ children' = Append(children, pid)
       /\ wpc' = [wpc EXCEPT ![pid] = "connect"]
       /\ inits' = [inits EXCEPT ![pid] = 1]
    /\ UNCHANGED << lock, ppc, widx, reaped, kills, waitlog, pendSig >>
    /\ UNCHANGED << bidx, clienttags, chanId, consumers, drainlog,
                    wexc, wexit, wstatus, initlog, topoAfter, inHandler >>
    /\ UNCHANGED brokerVars
    /\ UNCHANGED outsideVars

\* The fork loop is over: signal(SIGINT, _parent_handler),
\* signal(SIGTERM, _parent_handler), and the reap loop starts.
InstallParentHandler ==
    /\ ppc = "fork"
    /\ ~ ForkLoopGoesOn(Len(children))
    /\ ppc' = "wait"
    /\ widx' = 1
    /\ UNCHANGED << lock, children, reaped, kills, forks, waitlog, pendSig >>
    /\ UNCHANGED workerVars
    /\ UNCHANGED brokerVars
    /\ UNCHANGED outsideVars

\* The list comprehension of _parent_handler over pids, given the pids that no
\* longer exist: os.kill on such a pid raises OSError and ends the iteration.
RECURSIVE FanOut(_, _)
FanOut(pids, gone) ==
    IF pids = << >> THEN [sent |-> << >>, raised |-> FALSE]
    ELSE IF Head(pids) \in gone THEN [sent |-> << >>, raised |-> TRUE]
    ELSE LET rest == FanOut(Tail(pids), gone) IN
         [sent |-> << Head(pids) >> \o rest.sent, raised |-> rest.raised]

\* A handler whose iteration misses the first recorded pid.
ParentHandlerSkipsFirst(pids, gone) ==
    IF pids = << >> THEN FanOut(pids, gone) ELSE FanOut(Tail(pids), gone)

\* _parent_handler: SIGTERM to the pids of the global list children.
ParentHandler(pids, gone) == FanOut(pids, gone)

\* The pids _parent_handler calls os.kill with: those it signalled and, when
\* the iteration ended in OSError, the pid whose call raised it.
KillCalls(pids, gone) ==
    LET r == ParentHandler(pids, gone)
    IN IF r.raised THEN Append(r.sent, pids[Len(r.sent) + 1]) ELSE r.sent

SeqRange(s) == {s[k] : k \in 1..Len(s)}

\* The children that have not exited.
Live == {w \in SeqRange(children) : wpc[w] # "exited"}

\* os.waitpid(pid, 0) returns for a child that has exited.
Reap ==
    /\ ppc = "wait"
    /\ widx <= Len(children)
    /\ wpc[children[widx]] = "exited"
    /\ reaped' = reaped \cup {children[widx]}
    /\ waitlog' = Append(waitlog, << children[widx], "returned" >>)
    /\ widx' = widx + 1
    /\ UNCHANGED << lock, ppc, children, kills, forks, pendSig >>
    /\ UNCHANGED workerVars
    /\ UNCHANGED brokerVars
    /\ UNCHANGED outsideVars

\* The lock file after the try/finally around the reap loop, which is left
\* either at its end ("normal") or by an exception: pidf.release() runs in
\* the finally clause.
LockAfterWait(outcome) == "released"

\* The reap loop is over; the finally clause releases the lock and main
\* returns.
Release ==
    /\ ppc = "wait"
    /\ widx > Len(children)
    /\ lock' = LockAfterWait("normal")
    /\ ppc' = "done"
    /\ UNCHANGED << children, widx, reaped, kills, forks, waitlog, pendSig >>
    /\ UNCHANGED workerVars
    /\ UNCHANGED brokerVars
    /\ UNCHANGED outsideVars

\* Where main can be when a signal reaches it after its handlers are
\* installed: blocked in os.waitpid, elsewhere inside the inner try, in the
\* outer try outside the inner one (the for statement, the except clause), or
\* in the finally clause before pidf.release() has removed the lock.
SignalPoints == {"waitpid", "try", "loop", "finally"}

\* A reap loop without the inner try statement.
ReapCatchNoInnerTry(at) ==
    IF at \in {"waitpid", "try", "loop"} THEN "finally" ELSE "propagate"

\* What becomes of an exception raised with main at the point `at` of the
\* reap loop: `except Exception: pass` inside the inner try, the finally clause
\* and the end of main in the outer try, the end of main in the finally clause.
ReapCatch(at) ==
    IF at \in {"waitpid", "try"} THEN "pass"
    ELSE IF at = "loop" THEN "finally"
    ELSE "propagate"

\* A termination signal reaches the Supervisor after its handlers are
\* installed, with main at the point `at`, and _parent_handler runs.
\* A blocked os.waitpid that the signal interrupts raises OSError(EINTR), which
\* `except Exception: pass` swallows, and the loop goes on to the next pid.
\* An exception _parent_handler itself raises lands where main is: inside the
\* inner try (os.waitpid runs the handler before it raises for the interrupted
\* call, and raises the handler's exception in place of OSError(EINTR)) it is
\* swallowed and the loop goes on to the next pid; in the outer try it runs the
\* finally clause and ends main; in the finally clause it ends main before the
\* lock is released.
ParentSignal(at) ==
    /\ ppc = "wait"
    /\ Len(kills) < MaxParentSignals
    /\ at \in SignalPoints
    /\ at = "waitpid" => (widx <= Len(children) /\ wpc[children[widx]] # "exited")
    /\ at = "try" => widx <= Len(children)
    /\ at = "finally" => widx > Len(children)
    /\ LET r == ParentHandler(children, reaped)
           exc == at = "waitpid" \/ r.raised
           how == ReapCatch(at)
       IN
       /\ kills' = Append(kills, [sent |-> r.sent,
                                  allLive |-> Live = SeqRange(children)])
       /\ pendSig' = [w \in Pids |->
                         pendSig[w] \/ (w \in SeqRange(r.sent) /\ wpc[w] # "exited")]
       /\ widx' = IF exc /\ how = "pass" THEN widx + 1 ELSE widx
       /\ IF exc /\ how = "finally"
          THEN /\ lock' = LockAfterWait("exception")
               /\ ppc' = "raised"
          ELSE IF exc /\ how = "propagate"
          THEN /\ ppc' = "raised"
               /\ UNCHANGED lock
          ELSE UNCHANGED << lock, ppc >>
    /\ waitlog' = IF at = "waitpid"
                  THEN Append(waitlog, << children[widx], "raised" >>)
                  ELSE waitlog
    /\ UNCHANGED << children, reaped, forks >>
    /\ UNCHANGED workerVars
    /\ UNCHANGED brokerVars
    /\ UNCHANGED outsideVars

\* A termination signal reaches the Supervisor during the fork loop, before
\* _parent_handler is installed: the process ends there, outside the
\* try/finally, and no child is signalled.
ParentSignalEarly ==
    /\ ppc = "fork"
    /\ ppc' = "killed"
    /\ UNCHANGED << lock, children, widx, reaped, kills, forks, waitlog, pendSig >>
    /\ UNCHANGED workerVars
    /\ UNCHANGED brokerVars
    /\ UNCHANGED outsideVars

\* ------------------------------------------------------- the specification

Next ==
    \/ Acquire
    \/ Fork
    \/ InstallParentHandler
    \/ Reap
    \/ Release
    \/ \E at \in SignalPoints : ParentSignal(at)
    \/ ParentSignalEarly
    \/ \E w \in Pids :
        \/ ConnectOK(w)
        \/ \E e \in ConnectErrors : ConnectRaise(w, e)
        \/ BackoffDone(w)
        \/ OpenChannel(w)
        \/ DeclareExchanges(w)
        \/ DeclareQueues(w)
        \/ BindOne(w)
        \/ \E e \in BrokerErrors : InitRaise(w, e)
        \/ Deliver(w)
        \/ HandlerReturn(w)
        \/ \E e \in HandlerErrors : HandlerRaise(w, e)
        \/ \E e \in BrokerErrors : WaitRaise(w, e)
        \/ ExitHandler(w)
        \/ DrainStep(w)
        \/ SignalWorker(w)

Spec == Init /\ [][Next]_vars

\* ------------------------------------------------- two dispatchers, one lock

\* pidf.acquire() finds the lock file held for the whole of its timeout and
\* raises LockTimeout, which ends main.
AcquireTimeout ==
    /\ ppc = "acquire"
    /\ ~ LockFree(lock)
    /\ ppc' = "timeout"
    /\ UNCHANGED << lock, children, widx, reaped, kills, forks, waitlog, pendSig >>
    /\ UNCHANGED workerVars
    /\ UNCHANGED brokerVars
    /\ UNCHANGED outsideVars

\* What a step of the second dispatcher leaves alone.
firstVars == << ppc, children, widx, reaped, kills, forks, waitlog, pendSig,
               workerVars, brokerVars, bindings, admin, opts, settingsDEBUG, mode,
               msgVars >>

\* A second dispatcher is started on the same pid file and comes to
\* pidf.acquire().
OtherStart ==
    /\ other = "none"
    /\ other' = "acquire"
    /\ UNCHANGED << lock, otherForks >>
    /\ UNCHANGED firstVars

\* The second dispatcher's pidf.acquire().
OtherAcquire ==
    /\ other = "acquire"
    /\ LockFree(lock)
    /\ lock' = "other"
    /\ other' = "fork"
    /\ UNCHANGED otherForks
    /\ UNCHANGED firstVars

\* The second dispatcher's pidf.acquire() raises LockTimeout.
OtherTimeout ==
    /\ other = "acquire"
    /\ ~ LockFree(lock)
    /\ other' = "timeout"
    /\ UNCHANGED << lock, otherForks >>
    /\ UNCHANGED firstVars

\* One turn of the second dispatcher's fork loop.
OtherFork ==
    /\ other = "fork"
    /\ ForkLoopGoesOn(otherForks)
    /\ otherForks' = otherForks + 1
    /\ UNCHANGED << lock, other >>
    /\ UNCHANGED firstVars

\* The second dispatcher's fork loop is over and its reap loop starts.
OtherWait ==
    /\ other = "fork"
    /\ ~ ForkLoopGoesOn(otherForks)
    /\ other' = "wait"
    /\ UNCHANGED << lock, otherForks >>
    /\ UNCHANGED firstVars

\* The second dispatcher's reap loop is over: pidf.release().
OtherRelease ==
    /\ other = "wait"
    /\ lock' = "free"
    /\ other' = "done"
    /\ UNCHANGED otherForks
    /\ UNCHANGED firstVars

\* The two dispatchers, and of the first one's workers the steps from the
\* fork to the wait loop and those by which they end: a connection error, a
\* signal from the Supervisor, the drain calls.
LockNext ==
    \/ Acquire
    \/ AcquireTimeout
    \/ Fork
    \/ InstallParentHandler
    \/ Reap
    \/ Release
    \/ \E at \in SignalPoints : ParentSignal(at)
    \/ ParentSignalEarly
    \/ OtherStart
    \/ OtherAcquire
    \/ OtherTimeout
    \/ OtherFork
    \/ OtherWait
    \/ OtherRelease
    \/ \E w \in Pids :
        \/ ConnectOK(w)
        \/ \E e \in ConnectErrors : ConnectRaise(w, e)
        \/ BackoffDone(w)
        \/ OpenChannel(w)
        \/ DeclareExchanges(w)
        \/ DeclareQueues(w)
        \/ BindOne(w)
        \/ ExitHandler(w)
        \/ DrainStep(w)

LockSpec == Init /\ [][LockNext]_vars

\* ------------------------------------------- the administrative operations

\* What an administrative step leaves alone.
daemonVars == << supervisorVars, workerVars, pendSig, bindings, other, otherForks,
                 opts, settingsDEBUG, mode, msgVars >>

\* How a queue_delete or exchange_delete call on an open channel ends: the
\* broker accepts it, the broker refuses it with a channel exception (and
\* closes the channel), or the call fails otherwise.
DeleteOutcomes == {"ok", "AMQPChannelException", "error"}

\* How a call on a channel the broker has closed ends: it raises.
ClosedChannelOutcomes == {"AMQPChannelException", "error"}

\* Where the process goes when purge_queues returns: back into
\* purge_exchanges, or to the end of main.
AfterPurgeQueues(op) == IF op = "purge_exchanges" THEN "px_connect" ELSE "done"

\* An except clause that leaves chan as it is, for either kind of deletion.
ChannelNeverRecreated(what) == FALSE

\* Whether chan is an open channel after the except clause for a refused
\* deletion: purge_queues replaces it by conn.channel(), purge_exchanges
\* leaves the channel the broker closed.
ChannelAfterRefusal(what) == what = "queue_delete"

\* What the except clause of a refused deletion adds to the log.
RefusalLog(what, name) ==
    IF ChannelAfterRefusal(what)
    THEN << << "reported", name >>, << "conn.channel" >> >>
    ELSE << << "reported", name >> >>

\* What the operator may type at the prompt "Are you sure (N/y):".
Answers == {"", "y", "Y", "n", "N", "yes"}

\* A prompt that takes the empty answer for a yes.
GetUserConfirmationDefaultYes(ans) == ans \notin {"n", "N"}

\* get_user_confirmation(): False for the empty answer, False for an answer
\* that is neither 'Y' nor 'y', True otherwise.
GetUserConfirmation(ans) ==
    IF ans = "" THEN FALSE
    ELSE IF ans \notin {"Y", "y"} THEN FALSE
    ELSE TRUE

\* purge_queues: conn = get_connection(); chan = conn.channel().
PurgeQueuesConnect ==
    /\ admin.pc = "pq_connect"
    /\ admin' = [admin EXCEPT !.pc = "pq_confirm", !.conns = @ + 1, !.chanOpen = TRUE]
    /\ UNCHANGED brokerVars
    /\ UNCHANGED daemonVars

\* purge_queues: the list is printed and get_user_confirmation() reads ans.
PurgeQueuesConfirm(ans) ==
    /\ admin.pc = "pq_confirm"
    /\ admin' = [admin EXCEPT
           !.pc = IF ~ GetUserConfirmation(ans) THEN AfterPurgeQueues(admin.op)
                  ELSE IF Len(Queues) = 0 THEN "pq_close" ELSE "pq_delete",
           !.idx = 1,
           !.log = Append(@, << "confirm", "queues", GetUserConfirmation(ans), ans >>)]
    /\ UNCHANGED brokerVars
    /\ UNCHANGED daemonVars

\* purge_queues: one turn of the loop over settings.QUEUES.
PurgeQueuesDelete(outcome) ==
    /\ admin.pc = "pq_delete"
    /\ outcome \in (IF admin.chanOpen THEN DeleteOutcomes ELSE ClosedChannelOutcomes)
    /\ LET q == Queues[admin.idx]
           call == << "queue_delete", q, outcome, admin.chanOpen >>
           last == admin.idx = Len(Queues)
       IN /\ bQueues' = IF outcome = "ok" THEN bQueues \ {q} ELSE bQueues
          /\ bBindings' = IF outcome = "ok"
                          THEN {b \in bBindings : b[1] # q} ELSE bBindings
          /\ admin' = [admin EXCEPT
                 !.pc = IF outcome = "error" THEN "raised"
                        ELSE IF last THEN "pq_close" ELSE "pq_delete",
                 !.idx = IF outcome = "error" THEN @ ELSE @ + 1,
                 !.chanOpen = IF outcome = "AMQPChannelException"
                              THEN ChannelAfterRefusal("queue_delete") ELSE @,
                 !.log = IF outcome = "AMQPChannelException"
                         THEN Append(@, call) \o RefusalLog("queue_delete", q)
                         ELSE Append(@, call)]
    /\ UNCHANGED bExchanges
    /\ UNCHANGED daemonVars

\* chan.connection.close() at the end of either operation; on a channel the
\* broker has closed the call may fail.
PurgeClose(ok) ==
    /\ admin.pc \in {"pq_close", "px_close"}
    /\ admin.chanOpen => ok
    /\ admin' = [admin EXCEPT
           !.pc = IF ~ ok THEN "raised"
                  ELSE IF admin.pc = "pq_close" THEN AfterPurgeQueues(admin.op)
                  ELSE "done",
           !.conns = IF ok THEN @ - 1 ELSE @,
           !.chanOpen = IF ok THEN FALSE ELSE @,
           !.log = Append(@, << "connection.close", ok >>)]
    /\ UNCHANGED brokerVars
    /\ UNCHANGED daemonVars

\* purge_exchanges, after purge_queues() has returned:
\* conn = get_connection(); chan = conn.channel().
PurgeExchangesConnect ==
    /\ admin.pc = "px_connect"
    /\ admin' = [admin EXCEPT !.pc = "px_confirm", !.conns = @ + 1, !.chanOpen = TRUE]
    /\ UNCHANGED brokerVars
    /\ UNCHANGED daemonVars

\* purge_exchanges: the list is printed and get_user_confirmation() reads
\* ans.
PurgeExchangesConfirm(ans) ==
    /\ admin.pc = "px_confirm"
    /\ admin' = [admin EXCEPT
           !.pc = IF ~ GetUserConfirmation(ans) THEN "done"
                  ELSE IF Len(Exchanges) = 0 THEN "px_close" ELSE "px_delete",
           !.idx = 1,
           !.log = Append(@, << "confirm", "exchanges", GetUserConfirmation(ans), ans >>)]
    /\ UNCHANGED brokerVars
    /\ UNCHANGED daemonVars

\* purge_exchanges: one turn of the loop over settings.EXCHANGES.
PurgeExchangesDelete(outcome) ==
    /\ admin.pc = "px_delete"
    /\ outcome \in (IF admin.chanOpen THEN DeleteOutcomes ELSE ClosedChannelOutcomes)
    /\ LET x == Exchanges[admin.idx]
           call == << "exchange_delete", x, outcome, admin.chanOpen >>
           last == admin.idx = Len(Exchanges)
       IN /\ bExchanges' = IF outcome = "ok" THEN bExchanges \ {x} ELSE bExchanges
          /\ bBindings' = IF outcome = "ok"
                          THEN {b \in bBindings : b[2] # x} ELSE bBindings
          /\ admin' = [admin EXCEPT
                 !.pc = IF outcome = "error" THEN "raised"
                        ELSE IF last THEN "px_close" ELSE "px_delete",
                 !.idx = IF outcome = "error" THEN @ ELSE @ + 1,
                 !.chanOpen = IF outcome = "AMQPChannelException"
                              THEN ChannelAfterRefusal("exchange_delete") ELSE @,
                 !.log = IF outcome = "AMQPChannelException"
                         THEN Append(@, call) \o RefusalLog("exchange_delete", x)
                         ELSE Append(@, call)]
    /\ UNCHANGED bQueues
    /\ UNCHANGED daemonVars

\* ------------------------------------------- drain_queue

\* How many messages publishers send while a queue is drained.
MaxPublished == 2

\* How many times chan.wait() returns in the drain loop.
MaxWakeups == 3

\* The queue names drain_queue may be called with: none, configured ones,
\* and one that settings.QUEUES does not hold.
DrainArgs == {"", "q1", "q2", "qX"}

\* The routing keys publishers use.
RoutingKeys == {"", "a", "a.b", "rk1"}

\* A routing key or binding pattern as its dot-separated words.
Words(key) ==
    CASE key = "" -> << >>
      [] key = "a.b" -> << "a", "b" >>
      [] OTHER -> << key >>

\* A topic exchange's match of a binding pattern against a routing key, both
\* as words: '#' stands for zero or more words, '*' for exactly one.
RECURSIVE TopicMatch(_, _)
TopicMatch(pattern, key) ==
    IF pattern = << >> THEN key = << >>
    ELSE IF Head(pattern) = "#"
         THEN TopicMatch(Tail(pattern), key)
              \/ (key # << >> /\ TopicMatch(pattern, Tail(key)))
    ELSE /\ key # << >>
         /\ Head(pattern) = "*" \/ Head(pattern) = Head(key)
         /\ TopicMatch(Tail(pattern), Tail(key))

\* The queues a message published to exchange x under key is delivered to.
Routed(x, key) ==
    {b[1] : b \in {c \in bBindings :
                      c[2] = x /\ TopicMatch(Words(c[3]), Words(key))}}

\* A temporary binding that matches exactly one word.
DrainRoutingKeyOneWord == "*"

\* The routing key of drain_queue's temporary binding.
DrainRoutingKey == "#"

\* A membership test that takes every name for configured.
ConfiguredAlways(queue) == TRUE

\* queue in settings.QUEUES.
Configured(queue) == queue \in {Queues[k] : k \in 1..Len(Queues)}

\* The loop over settings.BINDINGS that sets exch: the exchange of the last
\* binding of the queue, and no value at all when no binding names it.
LookupExchange(bs, queue) ==
    LET ks == {k \in 1..Len(bs) : bs[k].queue = queue}
    IN IF ks = {} THEN "unbound"
       ELSE bs[CHOOSE k \in ks : \A j \in ks : j <= k].exchange

\* drain_queue: the two tests of the name, before anything else happens.
DrainQueueCheck ==
    /\ admin.pc = "dq_check"
    /\ admin' = [admin EXCEPT
           !.pc = IF admin.queue = "" THEN "done"
                  ELSE IF ~ Configured(admin.queue) THEN "done"
                  ELSE "dq_confirm",
           !.log = IF admin.queue = "" THEN @
                   ELSE IF ~ Configured(admin.queue)
                        THEN Append(@, << "not configured", admin.queue >>)
                   ELSE Append(@, << "to be drained", admin.queue >>)]
    /\ UNCHANGED brokerVars
    /\ UNCHANGED daemonVars

\* drain_queue: get_user_confirmation() reads ans.
DrainQueueConfirm(ans) ==
    /\ admin.pc = "dq_confirm"
    /\ admin' = [admin EXCEPT
           !.pc = IF ~ GetUserConfirmation(ans) THEN "done" ELSE "dq_connect",
           !.log = Append(@, << "confirm", "drain", GetUserConfirmation(ans), ans >>)]
    /\ UNCHANGED brokerVars
    /\ UNCHANGED daemonVars

\* drain_queue: conn = get_connection(); chan = conn.channel(); then the
\* loop over settings.BINDINGS and the test of exch.
DrainQueueConnect ==
    /\ admin.pc = "dq_connect"
    /\ LET x == LookupExchange(bindings, admin.queue)
       IN admin' = [admin EXCEPT
              !.pc = IF x = "unbound" THEN "raised"
                     ELSE IF x = "" THEN "done"
                     ELSE "dq_bind",
              !.exch = x,
              !.conns = @ + 1,
              !.chanOpen = TRUE,
              !.log = Append(@, << "connect" >>)]
    /\ UNCHANGED brokerVars
    /\ UNCHANGED daemonVars

\* drain_queue: chan.queue_bind(queue, exch, '#').
DrainQueueBind ==
    /\ admin.pc = "dq_bind"
    /\ bBindings' = bBindings \cup {<< admin.queue, admin.exch, DrainRoutingKey >>}
    /\ admin' = [admin EXCEPT
           !.pc = "dq_consume",
           !.log = Append(@, << "queue_bind", admin.queue, admin.exch, DrainRoutingKey >>)]
    /\ UNCHANGED << bExchanges, bQueues >>
    /\ UNCHANGED daemonVars

\* drain_queue: chan.basic_consume(queue, callbacks.dummy_proc), the two
\* seconds of sleep, and the installation of _exit_handler.
DrainQueueConsume ==
    /\ admin.pc = "dq_consume"
    /\ admin' = [admin EXCEPT
           !.pc = "dq_wait",
           !.consuming = TRUE,
           !.log = Append(@, << "basic_consume", admin.queue >>)]
    /\ UNCHANGED brokerVars
    /\ UNCHANGED daemonVars

\* A publisher sends a message to exchange x under a routing key while
\* drain_queue runs; the broker routes it by the bindings it holds.
DrainPublish(x, key) ==
    /\ admin.op = "drain_queue"
    /\ admin.pc \in {"dq_check", "dq_confirm", "dq_connect", "dq_bind",
                     "dq_consume", "dq_wait"}
    /\ Len(admin.pubs) < MaxPublished
    /\ x \in bExchanges
    /\ admin' = [admin EXCEPT
           !.ready = IF admin.queue \in Routed(x, key) THEN @ + 1 ELSE @,
           !.pubs = Append(@, [exchange |-> x, key |-> key,
                               queues |-> Routed(x, key),
                               bound |-> admin.pc \in {"dq_consume", "dq_wait"}])]
    /\ UNCHANGED brokerVars
    /\ UNCHANGED daemonVars

\* What chan.wait() returns for: a delivery, which runs the callback, or
\* another method the broker sends on the channel, which runs none.
WakeUps == {"deliver", "method"}

\* The loop body after chan.wait(): num_processed += 1, whatever chan.wait()
\* returned for.
Counted(wake) == TRUE

\* Whether the callback of a delivery takes the message off the queue.
DummyProcDiscards == TRUE

\* drain_queue: one turn of the loop: chan.wait() returns, num_processed is
\* incremented and written.
DrainWake(wake) ==
    /\ admin.pc = "dq_wait"
    /\ admin.num_processed < MaxWakeups
    /\ wake = "deliver" => admin.consuming /\ admin.ready > 0
    /\ admin' = [admin EXCEPT
           !.ready = IF wake = "deliver" THEN @ - 1 ELSE @,
           !.discarded = IF wake = "deliver" /\ DummyProcDiscards THEN @ + 1 ELSE @,
           !.num_processed = IF Counted(wake) THEN @ + 1 ELSE @,
           !.log = IF Counted(wake)
                   THEN Append(@, << "Ignored", admin.num_processed + 1 >>)
                   ELSE @]
    /\ UNCHANGED brokerVars
    /\ UNCHANGED daemonVars

\* SIGINT or SIGTERM in the drain loop: _exit_handler raises SystemExit,
\* nothing catches it, the process ends.
DrainSignal ==
    /\ admin.pc = "dq_wait"
    /\ admin' = [admin EXCEPT !.pc = "exited", !.log = Append(@, << "SystemExit" >>)]
    /\ UNCHANGED brokerVars
    /\ UNCHANGED daemonVars

\* The lists settings.BINDINGS is, for the administrative operations: the
\* configured list, and one in which a configured queue has no binding.
AdminBindingLists == {Bindings, SubSeq(Bindings, 1, 1)}

\* The broker holds the configured topology, no dispatcher runs, and an
\* administrative operation is called; drain_queue also with the empty name,
\* which main does not pass on.
AdminInit ==
    /\ lock = "free"
    /\ ppc = "admin"
    /\ children = << >>
    /\ widx = 1
    /\ reaped = {}
    /\ kills = << >>
    /\ forks = 0
    /\ waitlog = << >>
    /\ wpc = [w \in Pids |-> "unborn"]
    /\ inits = [w \in Pids |-> 0]
    /\ bidx = [w \in Pids |-> 1]
    /\ clienttags = [w \in Pids |-> << >>]
    /\ chanId = [w \in Pids |-> 0]
    /\ consumers = [w \in Pids |-> {}]
    /\ drainlog = [w \in Pids |-> << >>]
    /\ pendSig = [w \in Pids |-> FALSE]
    /\ wexc = [w \in Pids |-> NoExc]
    /\ wexit = [w \in Pids |-> "running"]
    /\ wstatus = [w \in Pids |-> -1]
    /\ initlog = [w \in Pids |-> << >>]
    /\ topoAfter = [w \in Pids |-> << >>]
    /\ inHandler = [w \in Pids |-> 0]
    /\ settingsDEBUG = FALSE
    /\ msgs = << >>
    /\ cur = [w \in Pids |-> 0]
    /\ bindings \in AdminBindingLists
    /\ bExchanges = SeqRange(Exchanges)
    /\ bQueues = SeqRange(Queues)
    /\ bBindings = {<< bindings[k].queue, bindings[k].exchange, bindings[k].key >> :
                       k \in {j \in 1..Len(bindings) : Resolves(bindings[j])}}
    /\ other = "none"
    /\ otherForks = 0
    /\ \/ \E op \in {"purge_queues", "purge_exchanges"} :
              /\ admin = [NoAdmin EXCEPT !.op = op, !.pc = "pq_connect"]
              /\ opts = [DaemonOpts EXCEPT ![op] = TRUE]
              /\ mode = op
       \/ \E queue \in DrainArgs :
              /\ admin = [NoAdmin EXCEPT !.op = "drain_queue", !.pc = "dq_check",
                                         !.queue = queue]
              /\ opts = [DaemonOpts EXCEPT !.drain_queue = queue]
              /\ mode = "drain_queue"

AdminNext ==
    \/ PurgeQueuesConnect
    \/ \E ans \in Answers : PurgeQueuesConfirm(ans)
    \/ \E outcome \in DeleteOutcomes : PurgeQueuesDelete(outcome)
    \/ \E ok \in BOOLEAN : PurgeClose(ok)
    \/ PurgeExchangesConnect
    \/ \E ans \in Answers : PurgeExchangesConfirm(ans)
    \/ \E outcome \in DeleteOutcomes : PurgeExchangesDelete(outcome)
    \/ DrainQueueCheck
    \/ \E ans \in Answers : DrainQueueConfirm(ans)
    \/ DrainQueueConnect
    \/ DrainQueueBind
    \/ DrainQueueConsume
    \/ \E x \in SeqRange(Exchanges), key \in RoutingKeys : DrainPublish(x, key)
    \/ \E wake \in WakeUps : DrainWake(wake)
    \/ DrainSignal

AdminSpec == AdminInit /\ [][AdminNext]_vars

\* ------------------------------------------- one worker, any binding list

\* The bindings settings.BINDINGS is made of: over the configured queues and
\* exchanges, with handler names that resolve and that do not.
BindingPool ==
    { [queue |-> "q1", exchange |-> "e1", key |-> "rk1", handler |-> "known"],
      [queue |-> "q2", exchange |-> "e1", key |-> "rk2", handler |-> "unknown"],
      [queue |-> "q2", exchange |-> "e2", key |-> "rk1", handler |-> "known"],
      [queue |-> "q1", exchange |-> "e1", key |-> "rk1", handler |-> "unknown"] }

\* The ordered binding lists of up to MaxBindings bindings.
BindingLists == UNION {[1..n -> BindingPool] : n \in 0..MaxBindings}

\* The Supervisor holds the lock and has forked its first worker, which is
\* entering _init; settings.BINDINGS is any binding list.
BindInit ==
    /\ lock = "held"
    /\ ppc = "fork"
    /\ children = << 1 >>
    /\ widx = 1
    /\ reaped = {}
    /\ kills = << >>
    /\ forks = 1
    /\ waitlog = << >>
    /\ wpc = [w \in Pids |-> IF w = 1 THEN "connect" ELSE "unborn"]
    /\ inits = [w \in Pids |-> IF w = 1 THEN 1 ELSE 0]
    /\ bidx = [w \in Pids |-> 1]
    /\ clienttags = [w \in Pids |-> << >>]
    /\ chanId = [w \in Pids |-> 0]
    /\ consumers = [w \in Pids |-> {}]
    /\ drainlog = [w \in Pids |-> << >>]
    /\ pendSig = [w \in Pids |-> FALSE]
    /\ wexc = [w \in Pids |-> NoExc]
    /\ wexit = [w \in Pids |-> "running"]
    /\ wstatus = [w \in Pids |-> -1]
    /\ initlog = [w \in Pids |-> << >>]
    /\ topoAfter = [w \in Pids |-> << >>]
    /\ inHandler = [w \in Pids |-> 0]
    /\ bindings \in BindingLists
    /\ bExchanges = {}
    /\ bQueues = {}
    /\ bBindings = {}
    /\ other = "none"
    /\ otherForks = 0
    /\ admin = NoAdmin
    /\ opts = DaemonOpts
    /\ settingsDEBUG = FALSE
    /\ mode = "daemon"
    /\ msgs = << >>
    /\ cur = [w \in Pids |-> 0]

\* The worker's steps through _init and, from the wait loop, back into it.
BindNext ==
    \E w \in Pids :
        \/ ConnectOK(w)
        \/ \E e \in ConnectErrors : ConnectRaise(w, e)
        \/ BackoffDone(w)
        \/ OpenChannel(w)
        \/ DeclareExchanges(w)
        \/ DeclareQueues(w)
        \/ BindOne(w)
        \/ \E e \in BrokerErrors : InitRaise(w, e)
        \/ \E e \in BrokerErrors : WaitRaise(w, e)

BindSpec == BindInit /\ [][BindNext]_vars

\* ------------------------------------------- one worker, followed messages

\* How many messages are followed.
MaxMsgs == 1

\* A message the broker holds in a queue, not yet delivered.
ReadyMsg == [state |-> "ready", by |-> << 0, 0 >>, deliveries |-> 0]

\* The Supervisor holds the lock and has forked its first worker; the
\* broker holds messages for the queues the worker will consume from.
MsgInit ==
    /\ lock = "held"
    /\ ppc = "fork"
    /\ children = << 1 >>
    /\ widx = 1
    /\ reaped = {}
    /\ kills = << >>
    /\ forks = 1
    /\ waitlog = << >>
    /\ wpc = [w \in Pids |-> IF w = 1 THEN "connect" ELSE "unborn"]
    /\ inits = [w \in Pids |-> IF w = 1 THEN 1 ELSE 0]
    /\ bidx = [w \in Pids |-> 1]
    /\ clienttags = [w \in Pids |-> << >>]
    /\ chanId = [w \in Pids |-> 0]
    /\ consumers = [w \in Pids |-> {}]
    /\ drainlog = [w \in Pids |-> << >>]
    /\ pendSig = [w \in Pids |-> FALSE]
    /\ wexc = [w \in Pids |-> NoExc]
    /\ wexit = [w \in Pids |-> "running"]
    /\ wstatus = [w \in Pids |-> -1]
    /\ initlog = [w \in Pids |-> << >>]
    /\ topoAfter = [w \in Pids |-> << >>]
    /\ inHandler = [w \in Pids |-> 0]
    /\ bindings = Bindings
    /\ bExchanges = {}
    /\ bQueues = {}
    /\ bBindings = {}
    /\ other = "none"
    /\ otherForks = 0
    /\ admin = NoAdmin
    /\ opts = DaemonOpts
    /\ settingsDEBUG = FALSE
    /\ mode = "daemon"
    /\ msgs = [m \in 1..MaxMsgs |-> ReadyMsg]
    /\ cur = [w \in Pids |-> 0]

\* The worker's life from _init to its end, and the broker's requeueing.
MsgNext ==
    \/ \E w \in Pids :
        \/ ConnectOK(w)
        \/ \E e \in ConnectErrors : ConnectRaise(w, e)
        \/ BackoffDone(w)
        \/ OpenChannel(w)
        \/ DeclareExchanges(w)
        \/ DeclareQueues(w)
        \/ BindOne(w)
        \/ \E e \in BrokerErrors : InitRaise(w, e)
        \/ Deliver(w)
        \/ HandlerReturn(w)
        \/ \E e \in HandlerErrors : HandlerRaise(w, e)
        \/ \E e \in BrokerErrors : WaitRaise(w, e)
        \/ DrainStep(w)
        \/ SignalWorker(w)
    \/ \E m \in 1..MaxMsgs : Requeue(m)

MsgSpec == MsgInit /\ [][MsgNext]_vars

\* ------------------------------------------- main, from the command line

\* A choice of mode that looks at --debug before --drain-queue.
ModeOfDebugFirst(o) ==
    IF o.purge_queues THEN "purge_queues"
    ELSE IF o.purge_exchanges THEN "purge_exchanges"
    ELSE IF o.debug THEN "debug"
    ELSE IF o.drain_queue # "" THEN "drain_queue"
    ELSE "daemon"

\* The mode main runs for the options o: the chain of tests, each ending in a
\* return. The option --drain-queue is tested for truth, so the empty name
\* counts as not given.
ModeOf(o) ==
    IF o.purge_queues THEN "purge_queues"
    ELSE IF o.purge_exchanges THEN "purge_exchanges"
    ELSE IF o.drain_queue # "" THEN "drain_queue"
    ELSE IF o.debug THEN "debug"
    ELSE "daemon"

\* main after parse_arguments: the tests of the options. An administrative
\* option calls its function, --debug calls debug_mode(), whose Dispatcher
\* starts _init in the process of main itself, and with none of them
\* daemon_context.open() makes the process a daemon.
MainDispatch ==
    /\ ppc = "main"
    /\ mode = "none"
    /\ mode' = ModeOf(opts)
    /\ ppc' = CASE mode' \in {"purge_queues", "purge_exchanges", "drain_queue"} -> "admin"
                [] mode' = "debug" -> "debug"
                [] OTHER -> "acquire"
    /\ admin' = CASE mode' \in {"purge_queues", "purge_exchanges"} ->
                         [NoAdmin EXCEPT !.op = mode', !.pc = "pq_connect"]
                  [] mode' = "drain_queue" ->
                         [NoAdmin EXCEPT !.op = mode', !.pc = "dq_check",
                                         !.queue = opts.drain_queue]
                  [] OTHER -> admin
    /\ wpc' = IF mode' = "debug" THEN [wpc EXCEPT ![1] = "connect"] ELSE wpc
    /\ inits' = IF mode' = "debug" THEN [inits EXCEPT ![1] = 1] ELSE inits
    /\ UNCHANGED << lock, children, widx, reaped, kills, forks, waitlog, pendSig >>
    /\ UNCHANGED << bidx, clienttags, chanId, consumers, drainlog,
                    wexc, wexit, wstatus, initlog, topoAfter, inHandler >>
    /\ UNCHANGED brokerVars
    /\ UNCHANGED << bindings, other, otherForks, opts, settingsDEBUG, msgVars >>

\* The command lines main is given.
OptionSets ==
    [purge_queues : BOOLEAN, purge_exchanges : BOOLEAN,
     drain_queue : {"", "q1", "qX"}, debug : BOOLEAN]

\* main is called with some options, under either value of settings.DEBUG;
\* the broker holds the configured topology.
MainInit ==
    /\ lock = "free"
    /\ ppc = "main"
    /\ children = << >>
    /\ widx = 1
    /\ reaped = {}
    /\ kills = << >>
    /\ forks = 0
    /\ waitlog = << >>
    /\ wpc = [w \in Pids |-> "unborn"]
    /\ inits = [w \in Pids |-> 0]
    /\ bidx = [w \in Pids |-> 1]
    /\ clienttags = [w \in Pids |-> << >>]
    /\ chanId = [w \in Pids |-> 0]
    /\ consumers = [w \in Pids |-> {}]
    /\ drainlog = [w \in Pids |-> << >>]
    /\ pendSig = [w \in Pids |-> FALSE]
    /\ wexc = [w \in Pids |-> NoExc]
    /\ wexit = [w \in Pids |-> "running"]
    /\ wstatus = [w \in Pids |-> -1]
    /\ initlog = [w \in Pids |-> << >>]
    /\ topoAfter = [w \in Pids |-> << >>]
    /\ inHandler = [w \in Pids |-> 0]
    /\ bindings = Bindings
    /\ bExchanges = SeqRange(Exchanges)
    /\ bQueues = SeqRange(Queues)
    /\ bBindings = {<< bindings[k].queue, bindings[k].exchange, bindings[k].key >> :
                       k \in {j \in 1..Len(bindings) : Resolves(bindings[j])}}
    /\ other = "none"
    /\ otherForks = 0
    /\ admin = NoAdmin
    /\ opts \in OptionSets
    /\ settingsDEBUG \in BOOLEAN
    /\ mode = "none"
    /\ msgs = << >>
    /\ cur = [w \in Pids |-> 0]

\* main, then the mode it chose: an administrative operation, or the
\* Dispatcher of debug_mode, or the Supervisor and its workers up to the
\* wait loop and back into _init.
MainNext ==
    \/ MainDispatch
    \/ PurgeQueuesConnect
    \/ \E ans \in Answers : PurgeQueuesConfirm(ans)
    \/ \E outcome \in DeleteOutcomes : PurgeQueuesDelete(outcome)
    \/ \E ok \in BOOLEAN : PurgeClose(ok)
    \/ PurgeExchangesConnect
    \/ \E ans \in Answers : PurgeExchangesConfirm(ans)
    \/ \E outcome \in DeleteOutcomes : PurgeExchangesDelete(outcome)
    \/ DrainQueueCheck
    \/ \E ans \in Answers : DrainQueueConfirm(ans)
    \/ DrainQueueConnect
    \/ DrainQueueBind
    \/ DrainQueueConsume
    \/ DrainSignal
    \/ Acquire
    \/ Fork
    \/ InstallParentHandler
    \/ \E w \in Pids :
        \/ ConnectOK(w)
        \/ OpenChannel(w)
        \/ DeclareExchanges(w)
        \/ DeclareQueues(w)
        \/ BindOne(w)
        \/ \E e \in BrokerErrors : WaitRaise(w, e)

MainSpec == MainInit /\ [][MainNext]_vars


\* ------------------------------------------- termination under fair scheduling

\* One step of the Supervisor's own code (a signal reaching it is the
\* environment's step, not the Supervisor's).
SupervisorStep ==
    \/ Acquire
    \/ Fork
    \/ InstallParentHandler
    \/ Reap
    \/ Release

\* One step of worker w's own code while the broker is reachable and its
\* callbacks return: initialization, a callback returning, the pending
\* SystemExit being raised, the drain sequence.
WorkerStep(w) ==
    \/ ConnectOK(w)
    \/ OpenChannel(w)
    \/ DeclareExchanges(w)
    \/ DeclareQueues(w)
    \/ BindOne(w)
    \/ HandlerReturn(w)
    \/ ExitHandler(w)
    \/ DrainStep(w)

\* The environment's step: the terminate signal reaches the Supervisor at a
\* moment when every one of the n workers is consuming.
TermSignal(at) ==
    /\ \A w \in Pids : WorkerState(w) = "CONSUMING"
    /\ ParentSignal(at)

\* The dispatcher with a reachable broker: the processes' own steps, messages
\* arriving, and the terminate signal reaching the Supervisor.
TermNext ==
    \/ SupervisorStep
    \/ \E at \in SignalPoints : TermSignal(at)
    \/ \E w \in Pids :
        \/ WorkerStep(w)
        \/ Deliver(w)

\* Every process is scheduled fairly: the kernel runs each of the forked
\* processes, so a process whose next step stays possible takes it; and the
\* interpreter runs a pending signal handler before the process's next
\* bytecode, so a delivered signal is not put off for ever by callbacks.
TermSpec ==
    /\ Init
    /\ [][TermNext]_vars
    /\ WF_vars(SupervisorStep)
    /\ \A w \in Pids : WF_vars(WorkerStep(w)) /\ WF_vars(ExitHandler(w))

\* ------------------------------------------------------ the pool of workers

\* The Supervisor and its n workers with what can befall one worker: a
\* termination signal sent to it alone, a callback that raises, chan.wait()
\* that raises. No signal reaches the Supervisor.
PoolNext ==
    \/ SupervisorStep
    \/ \E w \in Pids :
        \/ ConnectOK(w)
        \/ OpenChannel(w)
        \/ DeclareExchanges(w)
        \/ DeclareQueues(w)
        \/ BindOne(w)
        \/ Deliver(w)
        \/ HandlerReturn(w)
        \/ \E e \in HandlerErrors : HandlerRaise(w, e)
        \/ \E e \in BrokerErrors : WaitRaise(w, e)
        \/ DrainStep(w)
        \/ SignalWorker(w)

PoolSpec == Init /\ [][PoolNext]_vars

\* --------------------------------------------------- an unreachable broker

\* What amqp.Connection(...) raises while the broker cannot be reached: the
\* socket's connect fails.
Unreachable == {"socket.error"}

\* One step of worker w's _init other than a failed connection attempt.
InitStep(w) ==
    \/ ConnectOK(w)
    \/ BackoffDone(w)
    \/ OpenChannel(w)
    \/ DeclareExchanges(w)
    \/ DeclareQueues(w)
    \/ BindOne(w)

\* The Supervisor starting its workers.
StartStep ==
    \/ Acquire
    \/ Fork
    \/ InstallParentHandler

\* The dispatcher starting while the broker is unreachable at times: every
\* connection attempt either fails by socket.error or succeeds, and nothing
\* else goes wrong.
ConnNext ==
    \/ StartStep
    \/ \E w \in Pids :
        \/ InitStep(w)
        \/ \E e \in Unreachable : ConnectRaise(w, e)

\* Every process is scheduled fairly, and the broker is unreachable for a
\* finite number of attempts only: a worker that attempts to connect again
\* and again is in the end accepted.
ConnSpec ==
    /\ Init
    /\ [][ConnNext]_vars
    /\ WF_vars(StartStep)
    /\ \A w \in Pids : WF_vars(InitStep(w)) /\ SF_vars(ConnectOK(w))

\* ------------------------------------------------------------------ claims

SupervisorEnded == ppc \in {"done", "raised"}

AllForked == Len(children) = NWorkers

AllReaped == AllForked /\ reaped = SeqRange(children)

\* C1: the Supervisor does not come to the end of main, where it releases the
\* lock file and exits, before every one of the n forked children has exited
\* and has been reaped, also when a signal reached it during the reap loop.
C1_ExitsOnlyAfterAllReaped ==
    ppc = "done" =>
        /\ lock = "released"
        /\ AllReaped
        /\ \A w \in Pids : wpc[w] = "exited"

\* C2: a signal served by _parent_handler while every forked child is alive
\* sends SIGTERM to each recorded child pid exactly once, in list order.
C2_FanOutExactlyOnce ==
    \A k \in 1..Len(kills) :
        kills[k].allLive => kills[k].sent = children

\* C2 happens: _parent_handler has run with both children alive and has
\* signalled NWorkers pids.
C2_Witness ==
    \E k \in 1..Len(kills) :
        /\ kills[k].allLive
        /\ Len(kills[k].sent) = NWorkers
        /\ AllForked

\* C3: a Supervisor that reached the reap loop and has ended, at the end of
\* the loop or by an exception, does not hold the lock file any more.
C3_LockReleasedAfterWait ==
    SupervisorEnded => lock = "released"

\* _exit_handler has run in worker w: from then on no other exception is
\* raised in it.
SigSeen(w) == wexc[w].kind = "SystemExit"

\* Worker w made the calls of the drain sequence.
Drained(w) ==
    /\ \E i \in 1..Len(drainlog[w]) : drainlog[w][i] = << "connection.close" >>
    /\ \E i \in 1..Len(drainlog[w]) : drainlog[w][i] = << "chan.close" >>

\* C4: a worker that a termination signal reached, wherever it was, has gone
\* through the drain sequence by the time it is TERMINATED.
C4_SignalAlwaysDrains ==
    \A w \in Pids :
        (WorkerState(w) = "TERMINATED" /\ SigSeen(w)) => Drained(w)

\* The place the claim gives each drain call: cancel, close the channel, close
\* the connection.
ClaimedRank(call) ==
    IF call[1] = "basic_cancel" THEN 1
    ELSE IF call[1] = "chan.close" THEN 2
    ELSE 3

\* C5: the drain calls are made in the order cancel every consumer tag, close
\* the channel, close the connection; the connection is never closed before
\* the channel.
C5_DrainOrder ==
    \A w \in Pids :
        \A i, j \in 1..Len(drainlog[w]) :
            i < j => ClaimedRank(drainlog[w][i]) <= ClaimedRank(drainlog[w][j])

ConnectionDrops == {"AMQPConnectionException", "socket.error"}

\* The exception most recently raised in worker w is a connection drop raised
\* by chan.wait() while the worker was blocked in it.
DroppedWhileWaiting(w) ==
    /\ wexc[w].at = "wait"
    /\ wexc[w].kind \in ConnectionDrops

\* C6: after a connection drop while waiting, the same process is
\* re-initializing or, on a new channel with its consumers registered,
\* consuming again; it has not exited.
C6_DropWhileWaitingRecovered ==
    \A w \in Pids :
        DroppedWhileWaiting(w) =>
            /\ WorkerState(w) \in {"INITIALIZING", "CONSUMING"}
            /\ wexit[w] = "running"
            /\ wstatus[w] = -1
            /\ inits[w] >= 2
            /\ WorkerState(w) = "CONSUMING" =>
                   (chanId[w] = inits[w] /\ consumers[w] # {})

\* C6 happens: a worker whose connection dropped while it waited is waiting
\* again on its second channel.
C6_Witness ==
    \E w \in Pids :
        /\ DroppedWhileWaiting(w)
        /\ wexc[w].kind = "socket.error"
        /\ wpc[w] = "wait"
        /\ chanId[w] = 2

\* C7: whenever a worker is CONSUMING or enters DRAINING, its recorded
\* consumer tags are exactly the tags registered on its current channel.
C7_TagsAreTheCurrentChannels ==
    \A w \in Pids :
        (WorkerState(w) = "CONSUMING" \/ wpc[w] = DrainOrder[1]) =>
            /\ SeqRange(clienttags[w]) = consumers[w]
            /\ Len(clienttags[w]) = Cardinality(consumers[w])

\* The transient connectivity errors: connection refused and socket error
\* (socket.error), broker-side channel exception.
TransientErrors == {"socket.error", "AMQPChannelException"}

\* C8: no transient connectivity error raised while waiting, while connecting
\* or while declaring and binding during a re-initialization ends the worker.
C8_NoTransientErrorEscapes ==
    \A w \in Pids :
        ~ /\ wexit[w] = "raised"
          /\ wexc[w].kind \in TransientErrors
          /\ \/ wexc[w].at \in {"wait", "connect", "backoff"}
             \/ wexc[w].at \in {"channel", "exchanges", "queues", "bind"}
                /\ inits[w] >= 2

\* C9: a worker whose callback raised, whatever the kind of exception, has
\* terminated: it is not re-initializing and not consuming.
C9_HandlerErrorTerminates ==
    \A w \in Pids :
        (wexc[w].at = "handler" /\ wexc[w].kind \in HandlerErrors) =>
            WorkerState(w) = "TERMINATED"

\* C10: a worker that ended after completing the drain has exit status 0, and
\* a worker that an exception raised by a callback ended has a non-zero one.
C10_ExitStatus ==
    \A w \in Pids :
        /\ (wexit[w] = "returned" /\ Drained(w)) => wstatus[w] = 0
        /\ (wexit[w] = "raised" /\ wexc[w].at = "handler"
              /\ wexc[w].kind \in HandlerErrors) => wstatus[w] # 0

\* C11: no failure of a connection attempt leaves the connect loop of _init
\* as an exception: a worker whose amqp.Connection(...) raised, whatever the
\* kind of failure, has not been ended by it: it backs off and tries again, or
\* has gone on after a later attempt succeeded.
C11_ConnectNeverRaises ==
    \A w \in Pids :
        (wexc[w].at = "connect" /\ wexc[w].kind \in ConnectErrors) =>
            /\ wexit[w] = "running"
            /\ WorkerState(w) # "TERMINATED"

\* How many entries of worker w's _init log are the call or message `what`
\* for the binding at position i.
Logged(w, what, i) ==
    Cardinality({k \in 1..Len(initlog[w]) :
                    initlog[w][k][1] = what /\ initlog[w][k][2] = i})

\* The tags that worker w's _init log has basic_consume return for binding i.
TagsOf(w, i) ==
    {initlog[w][k][3] : k \in {j \in 1..Len(initlog[w]) :
                                  initlog[w][j][1] = "basic_consume"
                                  /\ initlog[w][j][2] = i}}

\* How many bindings worker w's binding loop is through: all of them once
\* _init has returned.
BindingsDone(w) ==
    IF wpc[w] = "bind" THEN bidx[w] - 1
    ELSE IF wpc[w] \in ConsumePcs THEN Len(bindings)
    ELSE 0

\* C12: whatever the binding list, once the binding loop is past a binding,
\* and for every binding once _init has returned: a binding whose handler
\* resolves is bound once and consumed once, on the worker's channel, with its
\* tag recorded, and no omission is logged for it; a binding whose handler
\* does not resolve is not bound and not consumed and exactly one omission is
\* logged for it.
C12_UnresolvedBindingsSkipped ==
    \A w \in Pids :
        \A i \in 1..BindingsDone(w) :
            IF Resolves(bindings[i])
            THEN /\ Logged(w, "queue_bind", i) = 1
                 /\ Logged(w, "basic_consume", i) = 1
                 /\ Logged(w, "omitted", i) = 0
                 /\ << bindings[i].queue, bindings[i].exchange, bindings[i].key >>
                        \in bBindings
                 /\ TagsOf(w, i) \subseteq consumers[w]
                 /\ TagsOf(w, i) \subseteq SeqRange(clienttags[w])
            ELSE /\ Logged(w, "queue_bind", i) = 0
                 /\ Logged(w, "basic_consume", i) = 0
                 /\ Logged(w, "omitted", i) = 1

\* C12 happens: _init has returned for a list whose first binding does not
\* resolve and whose last binding does, and the worker consumes.
C12_Witness ==
    \E w \in Pids :
        /\ wpc[w] = "wait"
        /\ Len(bindings) >= 2
        /\ ~ Resolves(bindings[1])
        /\ Resolves(bindings[Len(bindings)])
        /\ Logged(w, "omitted", 1) = 1
        /\ Logged(w, "basic_consume", Len(bindings)) = 1
        /\ consumers[w] # {}

C14_OneHandlerAtATime ==
    \A w \in Pids :
        /\ inHandler[w] \in {0, 1}
        /\ inHandler[w] = 1 <=> wpc[w] = "handler"

\* C14 happens: a callback invocation is in progress in a worker in which an
\* earlier invocation has ended.
C14_Witness ==
    \E w \in Pids :
        /\ inHandler[w] = 1
        /\ wpc[w] = "handler"
        /\ wexc[w].at = "handler"
        /\ chanId[w] = 2

\* The workers that have been forked.
Born == {w \in Pids : wpc[w] # "unborn"}

\* C15: os.fork() is called at most NWorkers times, and exactly NWorkers times
\* by a Supervisor that has left its fork loop; every fork is recorded, once,
\* in children; a child whose worker returned or raised is ended and is not
\* in the fork loop; no fork makes up for a child that exited.
C15_ExactlyNForks ==
    /\ forks <= NWorkers
    /\ forks = Len(children)
    /\ Born = SeqRange(children)
    /\ Cardinality(SeqRange(children)) = Len(children)
    /\ ppc \in {"wait", "done", "raised"} => forks = NWorkers
    /\ \A w \in Pids : wexit[w] # "running" => WorkerState(w) = "TERMINATED"

\* C15 happens: one child returned from its worker and another raised, both
\* after the fork loop, and NWorkers forks have been made.
C15_Witness ==
    /\ ppc = "wait"
    /\ forks = NWorkers
    /\ \E w \in Pids : wexit[w] = "returned"
    /\ \E w \in Pids : wexit[w] = "raised"

\* C16: a dispatcher that forks or waits for its children holds the lock
\* file, which it acquired before its first fork; the two dispatchers are
\* never both forking or waiting; and one whose pidf.acquire() found the lock
\* held has forked nothing.
C16_OneSupervisorForks ==
    /\ ppc \in {"fork", "wait"} => lock = "held"
    /\ other \in {"fork", "wait"} => lock = "other"
    /\ ~ (ppc \in {"fork", "wait"} /\ other \in {"fork", "wait"})
    /\ ppc \in {"acquire", "timeout"} => (forks = 0 /\ Born = {})
    /\ other \in {"none", "acquire", "timeout"} => otherForks = 0

\* C16 happens: the second dispatcher was started while the first held the
\* lock and had forked its workers, and it has ended without a fork.
C16_Witness ==
    /\ other = "timeout"
    /\ otherForks = 0
    /\ lock = "held"
    /\ ppc = "wait"
    /\ forks = NWorkers

\* The step ends an os.waitpid call by an exception.
WaitRaised ==
    /\ Len(waitlog') = Len(waitlog) + 1
    /\ waitlog'[Len(waitlog')][2] = "raised"

\* C17: an exception raised by the wait on one child does not end the reap
\* loop: after it the lock is still held and the loop is at the next pid of
\* the list, so that the waits on the later pids come before the release; and
\* main comes to its end by the loop only when the loop is past every pid.
C17_ReapIsBestEffort ==
    [][/\ WaitRaised => /\ ppc' = "wait"
                        /\ lock' = "held"
                        /\ widx' = widx + 1
                        /\ waitlog'[Len(waitlog')][1] = children[widx]
       /\ ppc' = "done" => widx' = Len(children') + 1]_vars

\* C17 happens: the wait on the first child raised, the wait on the second was
\* made afterwards and returned, and then the lock was released.
C17_Witness ==
    /\ Len(waitlog) = 2
    /\ waitlog[1] = << children[1], "raised" >>
    /\ waitlog[2] = << children[2], "returned" >>
    /\ lock = "released"
    /\ ppc = "done"

IsQueueDelete(e) == e[1] = "queue_delete"

IsExchangeDelete(e) == e[1] = "exchange_delete"

\* The queue_delete calls the operation has made, in order: each is the
\* queue, how the call ended, and whether chan was an open channel.
QueueDeletes == SelectSeq(admin.log, IsQueueDelete)

\* The exchange_delete calls the operation has made, in order.
ExchangeDeletes == SelectSeq(admin.log, IsExchangeDelete)

\* The user has answered the prompt for `what` with yes.
Confirmed(what) ==
    \E k \in 1..Len(admin.log) :
        /\ admin.log[k][1] = "confirm"
        /\ admin.log[k][2] = what
        /\ admin.log[k][3]

\* C18: after the confirmation purge_queues calls queue_delete for the
\* configured queues in list order, each call on an open channel; a call the
\* broker refuses with a channel exception is followed by the report and by a
\* new channel, and by the call for the next queue; a queue whose call the
\* broker accepted is gone; and unless a call failed otherwise, the loop ends
\* with a call made for every configured queue.
C18_PurgeQueuesIsolatesFaults ==
    /\ \A k \in 1..Len(QueueDeletes) :
           /\ Confirmed("queues")
           /\ QueueDeletes[k][2] = Queues[k]
           /\ QueueDeletes[k][4]
           /\ QueueDeletes[k][3] = "ok" => Queues[k] \notin bQueues
           /\ admin.pc = "pq_delete" =>
                  (admin.idx = Len(QueueDeletes) + 1 /\ admin.chanOpen)
    /\ \A k \in 1..Len(admin.log) :
           (IsQueueDelete(admin.log[k]) /\ admin.log[k][3] = "AMQPChannelException") =>
               /\ Len(admin.log) >= k + 2
               /\ admin.log[k + 1] = << "reported", admin.log[k][2] >>
               /\ admin.log[k + 2] = << "conn.channel" >>
    /\ ( /\ Confirmed("queues")
         /\ admin.pc # "pq_delete"
         /\ \A k \in 1..Len(QueueDeletes) : QueueDeletes[k][3] # "error" ) =>
           Len(QueueDeletes) = Len(Queues)

\* C18 happens: the broker refused the deletion of the first queue and
\* accepted the deletion of the second, which is gone.
C18_Witness ==
    /\ Len(QueueDeletes) = 2
    /\ QueueDeletes[1] = << "queue_delete", Queues[1], "AMQPChannelException", TRUE >>
    /\ QueueDeletes[2][3] = "ok"
    /\ Queues[1] \in bQueues
    /\ Queues[2] \notin bQueues

\* C19: an exchange_delete call is made only after a queue_delete call has
\* been made, in the same run, for every configured queue.
C19_QueuesPurgedBeforeExchanges ==
    \A k \in 1..Len(admin.log) :
        IsExchangeDelete(admin.log[k]) =>
            \A q \in SeqRange(Queues) :
                \E j \in 1..(k - 1) :
                    IsQueueDelete(admin.log[j]) /\ admin.log[j][2] = q

\* C20: every exchange_delete call of purge_exchanges is made on an open
\* channel, also the calls that come after a call the broker refused with a
\* channel exception, so that the broker can accept them.
C20_PurgeExchangesIsolatesFaults ==
    \A k \in 1..Len(ExchangeDeletes) :
        /\ ExchangeDeletes[k][2] = Exchanges[k]
        /\ ExchangeDeletes[k][4]

\* The prompt that gates a logged call on the broker.
PromptOf(e) ==
    CASE e[1] = "queue_delete" -> "queues"
      [] e[1] = "exchange_delete" -> "exchanges"
      [] e[1] \in {"queue_bind", "basic_consume"} -> "drain"
      [] OTHER -> "none"

\* The positions of the answers given before position k of the log.
PromptsBefore(k) == {j \in 1..(k - 1) : admin.log[j][1] = "confirm"}

\* C21: no administrative operation changes the broker without confirmation:
\* every queue_delete, exchange_delete, queue_bind and basic_consume call is
\* made after a prompt, the last prompt before it is the prompt of that
\* operation and was answered exactly "y" or "Y"; and while no call has been
\* made the broker holds what it held at the start.
C21_ConfirmationGatesBrokerChanges ==
    /\ \A k \in 1..Len(admin.log) :
           PromptOf(admin.log[k]) # "none" =>
               /\ PromptsBefore(k) # {}
               /\ LET j == CHOOSE i \in PromptsBefore(k) :
                               \A h \in PromptsBefore(k) : h <= i
                  IN /\ admin.log[j][2] = PromptOf(admin.log[k])
                     /\ admin.log[j][4] \in {"y", "Y"}
    /\ (\A k \in 1..Len(admin.log) : PromptOf(admin.log[k]) = "none") =>
           /\ bQueues = SeqRange(Queues)
           /\ bExchanges = SeqRange(Exchanges)
           /\ bBindings = {<< Bindings[k].queue, Bindings[k].exchange, Bindings[k].key >> :
                              k \in {j \in 1..Len(Bindings) : Resolves(Bindings[j])}}

\* purge_exchanges has ended: the prompt of purge_queues was answered with
\* the empty answer and every queue is still there, the prompt of
\* purge_exchanges was answered "Y" and an exchange is gone.
C21_Witness ==
    /\ admin.op = "purge_exchanges"
    /\ admin.pc = "done"
    /\ \E k \in 1..Len(admin.log) : admin.log[k] = << "confirm", "queues", FALSE, "" >>
    /\ \E k \in 1..Len(admin.log) : admin.log[k] = << "confirm", "exchanges", TRUE, "Y" >>
    /\ bQueues = SeqRange(Queues)
    /\ bExchanges # SeqRange(Exchanges)

\* C22: drain_queue acts only on a configured queue: called with the empty
\* name or with a name that settings.QUEUES does not hold, it asks nothing,
\* opens no connection, binds and consumes nothing, and its only step is the
\* return.
C22_DrainOnlyConfiguredQueue ==
    (admin.op = "drain_queue" /\ admin.queue \notin SeqRange(Queues)) =>
        /\ admin.pc \in {"dq_check", "done"}
        /\ admin.conns = 0
        /\ ~ admin.chanOpen
        /\ ~ admin.consuming
        /\ \A k \in 1..Len(admin.log) :
               admin.log[k][1] \notin {"confirm", "connect", "queue_bind", "basic_consume"}
        /\ bBindings = {<< Bindings[k].queue, Bindings[k].exchange, Bindings[k].key >> :
                           k \in {j \in 1..Len(Bindings) : Resolves(Bindings[j])}}

\* drain_queue was called with a name that is not configured and has
\* returned after reporting it.
C22_Witness ==
    /\ admin.op = "drain_queue"
    /\ admin.queue = "qX"
    /\ admin.pc = "done"
    /\ admin.log = << << "not configured", "qX" >> >>

\* C23: in the drain loop the reported count equals the number of messages
\* discarded so far: it grows by one with each discarded message and by
\* nothing on a return of chan.wait() that discarded no message.
C23_CountIsDiscardedMessages ==
    admin.op = "drain_queue" => admin.num_processed = admin.discarded

\* C24: once drain_queue has bound the queue to its exchange with routing
\* key '#', every message published to that exchange is delivered to the
\* queue, whatever its routing key.
C24_CatchAllBinding ==
    \A k \in 1..Len(admin.pubs) :
        (admin.pubs[k].bound /\ admin.pubs[k].exchange = admin.exch) =>
            admin.queue \in admin.pubs[k].queues

\* After the temporary binding of q2 a message with the empty routing key and
\* one with a key of two words were published to its exchange, and both are
\* in the queue, which no production binding would have matched.
C24_Witness ==
    /\ admin.op = "drain_queue"
    /\ admin.queue = "q2"
    /\ admin.pc = "dq_wait"
    /\ Len(admin.pubs) = 2
    /\ admin.pubs[1].bound /\ admin.pubs[1].exchange = admin.exch /\ admin.pubs[1].key = ""
    /\ admin.pubs[2].bound /\ admin.pubs[2].exchange = admin.exch /\ admin.pubs[2].key = "a.b"
    /\ admin.ready = 2

\* The queues the current run of _init of w has declared, and the entries of
\* the binding list it has bound.
DeclaredBy(w) ==
    {initlog[w][k][2] : k \in {j \in 1..Len(initlog[w]) : initlog[w][j][1] = "queue_declare"}}
BoundBy(w) ==
    {bindings[initlog[w][k][2]] :
        k \in {j \in 1..Len(initlog[w]) : initlog[w][j][1] = "queue_bind"}}

\* The configured bindings whose handler exists.
Production == {Bindings[k] : k \in {j \in 1..Len(Bindings) : Resolves(Bindings[j])}}

\* C25: the debug queue is declared and the debug bindings are registered
\* only when the Dispatcher was built with debug set (which debug_mode alone
\* does) and settings.DEBUG is true; otherwise a finished _init has declared
\* exactly the configured queues and bound exactly the production bindings.
C25_DebugTopologyNeedsBothFlags ==
    /\ QueueDebug \in bQueues => (mode = "debug" /\ settingsDEBUG)
    /\ \A w \in Pids :
           wpc[w] = "wait" =>
               IF mode = "debug" /\ settingsDEBUG
               THEN /\ DeclaredBy(w) = SeqRange(Queues) \cup {QueueDebug}
                    /\ BoundBy(w) = Production \cup SeqRange(BindingsDebug)
               ELSE /\ DeclaredBy(w) = SeqRange(Queues)
                    /\ BoundBy(w) = Production

\* The Dispatcher of debug_mode has finished _init under settings.DEBUG: the
\* broker holds the debug queue and its binding.
C25_Witness ==
    /\ mode = "debug"
    /\ settingsDEBUG
    /\ wpc[1] = "wait"
    /\ QueueDebug \in bQueues
    /\ << QueueDebug, "e1", "#" >> \in bBindings

\* The parts of the daemon mode: daemonization and the lock file, forked
\* workers.
Daemonized == ppc \in {"acquire", "timeout", "fork", "wait", "done", "raised", "killed"}
LockTouched == lock # "free"
Forked == forks > 0 \/ children # << >>

\* C26: main runs one mode per invocation, the first in the order
\* purge-queues, purge-exchanges, drain-queue, debug, daemon whose option is
\* set; whatever the other options, an administrative operation and the debug
\* mode never daemonize, never acquire the lock file and never fork, and only
\* the chosen mode takes steps.
C26_OneModeByPrecedence ==
    /\ mode # "none" =>
           mode = (CASE opts.purge_queues -> "purge_queues"
                     [] ~ opts.purge_queues /\ opts.purge_exchanges -> "purge_exchanges"
                     [] ~ opts.purge_queues /\ ~ opts.purge_exchanges
                        /\ opts.drain_queue # "" -> "drain_queue"
                     [] ~ opts.purge_queues /\ ~ opts.purge_exchanges
                        /\ opts.drain_queue = "" /\ opts.debug -> "debug"
                     [] OTHER -> "daemon")
    /\ mode = "none" => ppc = "main"
    /\ admin.op # "none" => admin.op = mode
    /\ mode \in {"purge_queues", "purge_exchanges", "drain_queue"} =>
           /\ ~ Daemonized /\ ~ LockTouched /\ ~ Forked
           /\ \A w \in Pids : wpc[w] = "unborn"
    /\ mode = "debug" =>
           /\ ~ Daemonized /\ ~ LockTouched /\ ~ Forked
           /\ admin = NoAdmin
           /\ \A w \in Pids \ {1} : wpc[w] = "unborn"
    /\ mode \in {"none", "daemon"} => admin = NoAdmin
    /\ Daemonized => mode = "daemon"

\* main was called with --drain-queue q1 --debug: drain_queue runs and has
\* registered its consumer; nothing of the debug mode or of the daemon
\* has happened.
C26_Witness ==
    /\ opts.drain_queue = "q1" /\ opts.debug
    /\ mode = "drain_queue"
    /\ admin.pc = "dq_wait"
    /\ ppc = "admin"
    /\ lock = "free"
    /\ forks = 0

\* C27: the dispatcher loses no message by itself: a message the broker has
\* delivered to a worker is acknowledged only by the callback that was given
\* it; whenever it is not acknowledged, also after the worker's connection
\* dropped, after the worker crashed and after the worker drained, the
\* broker still holds it, on the worker's channel or back in its queue.
C27_UnackedMessagesAreKept ==
    \A m \in DOMAIN msgs :
        /\ msgs[m].state \in {"ready", "unacked", "acked"}
        /\ msgs[m].state = "acked" => msgs[m].deliveries > 0
        /\ (msgs[m].state = "unacked" /\ ChannelGone(msgs[m].by[1], msgs[m].by[2])) =>
               ENABLED Requeue(m)

\* A followed message was delivered to the worker, its callback raised an
\* error that ended the process, and the broker has put the message back
\* into its queue.
C27_Witness ==
    /\ msgs # << >>
    /\ msgs[1].state = "ready"
    /\ msgs[1].deliveries = 1
    /\ msgs[1].by = << 1, 1 >>
    /\ wpc[1] = "exited"
    /\ wexit[1] = "raised"
    /\ wexc[1].at = "handler"

\* The pids some run of _parent_handler has signalled.
Signalled == UNION {SeqRange(kills[k].sent) : k \in 1..Len(kills)}

\* C28: a termination signal that reaches the Supervisor after it has the
\* lock and has forked a child, also during the fork loop, gets every forked
\* child signalled: the Supervisor never ends on a signal with a live
\* forked worker unsignalled or with the lock held.
C28_EarlySignalReachesChildren ==
    (ppc = "killed" /\ children # << >>) =>
        /\ lock # "held"
        /\ Live \subseteq Signalled

\* C29: the fan-out reaches every live child: whenever _parent_handler runs,
\* every recorded child that has not exited is sent the signal, also when an
\* earlier pid of the list has exited and been reaped.
C29_FanOutPastReapedChildren ==
    [][Len(kills') > Len(kills) => Live \subseteq SeqRange(kills'[Len(kills')].sent)]_vars

\* C30: a pid whose waitpid has returned is no longer signalled: no run of
\* _parent_handler calls os.kill with a pid of the set reaped.
C30_NoSignalToReapedPid ==
    [][Len(kills') > Len(kills) =>
          SeqRange(KillCalls(children, reaped)) \cap reaped = {}]_vars

\* The terminate signal has reached the Supervisor; in TermSpec it does so
\* only while every one of the n workers is consuming.
SignalledWhileAllConsume == Len(kills) > 0

\* Every worker has ended, every child has been reaped, the lock is released
\* and main has returned.
CleanShutdown ==
    /\ \A w \in Pids : WorkerState(w) = "TERMINATED"
    /\ AllReaped
    /\ lock = "released"
    /\ ppc = "done"

\* C31: under fair scheduling of all processes and with a reachable broker, a
\* terminate signal delivered to the Supervisor while all n workers are
\* consuming leads to every worker terminated, every child reaped, the lock
\* released and the Supervisor's exit.
C31_SignalLeadsToCleanShutdown == SignalledWhileAllConsume ~> CleanShutdown

\* All that worker v holds: its position, its channel and consumers, its
\* pending signal, how it ended.
WorkerLocal(v) ==
    << wpc[v], inits[v], bidx[v], clienttags[v], chanId[v], consumers[v],
       drainlog[v], pendSig[v], wexc[v], wexit[v], wstatus[v], initlog[v],
       topoAfter[v], inHandler[v], cur[v] >>

\* Worker w is hit: a termination signal is delivered to it, or an exception
\* is raised in its callback or in its chan.wait().
Befalls(w) ==
    \/ SignalWorker(w)
    \/ \E e \in HandlerErrors : HandlerRaise(w, e)
    \/ \E e \in BrokerErrors : WaitRaise(w, e)

IsDebugBinding(i) ==
    \E k \in 1..Len(BindingsDebug) : bindings[i] = BindingsDebug[k]

\* The place of a call in the order the claim gives: exchanges, production
\* queues, the debug queue, production bindings, debug bindings.
InitRank(e) ==
    IF e[1] = "exchange_declare" THEN 1
    ELSE IF e[1] = "queue_declare" THEN (IF e[2] = QueueDebug THEN 3 ELSE 2)
    ELSE IF IsDebugBinding(e[2]) THEN 5 ELSE 4

\* The names that worker w's _init log has declared with the call op.
DeclaredIn(w, op) ==
    {initlog[w][k][2] : k \in {j \in 1..Len(initlog[w]) : initlog[w][j][1] = op}}

\* C33: in each run of _init the broker calls come in the order exchanges,
\* production queues, debug queue (debug mode), bindings in list order with
\* the production bindings before the debug bindings; and a queue_bind or
\* basic_consume is issued only after every exchange and every queue (the
\* debug queue too in debug mode) has been declared.
C33_InitOrder ==
    \A w \in Pids :
        LET L == initlog[w] IN
        /\ \A j, k \in 1..Len(L) :
               j < k =>
                   /\ InitRank(L[j]) <= InitRank(L[k])
                   /\ (InitRank(L[j]) >= 4 => L[j][2] <= L[k][2])
        /\ (\E k \in 1..Len(L) : InitRank(L[k]) >= 4) =>
               /\ DeclaredIn(w, "exchange_declare") = SeqRange(Exchanges)
               /\ DeclaredIn(w, "queue_declare") =
                      SeqRange(Queues) \cup (IF DebugEnabled THEN {QueueDebug} ELSE {})

\* A worker in debug mode has finished a re-initialization: its log holds the
\* declaration of the debug queue, a production binding consumed and a debug
\* binding consumed.
C33_Witness ==
    \E w \in Pids :
        /\ wpc[w] = "wait"
        /\ inits[w] > 1
        /\ DebugEnabled
        /\ << "queue_declare", QueueDebug >> \in SeqRange(initlog[w])
        /\ \E j, k \in 1..Len(initlog[w]) :
               /\ initlog[w][j][1] = "basic_consume" /\ ~ IsDebugBinding(initlog[w][j][2])
               /\ initlog[w][k][1] = "basic_consume" /\ IsDebugBinding(initlog[w][k][2])

\* C34: a worker that is initializing while the broker is unreachable for a
\* finite number of attempts eventually consumes; until then it stays in
\* INITIALIZING and never exits, and its attempts alternate with the backoff:
\* an attempt is followed by the backoff or by the channel, the backoff by
\* the next attempt.
C34_ConnectRetriesUntilAccepted ==
    /\ \A w \in Pids :
           (WorkerState(w) = "INITIALIZING") ~> (WorkerState(w) = "CONSUMING")
    /\ [][\A w \in Pids :
             /\ WorkerState(w) = "INITIALIZING" =>
                    WorkerState(w)' \in {"INITIALIZING", "CONSUMING"}
             /\ (wpc[w] = "connect" /\ wpc'[w] # "connect") =>
                    wpc'[w] \in {"backoff", "channel"}
             /\ (wpc[w] = "backoff" /\ wpc'[w] # "backoff") =>
                    wpc'[w] = "connect"]_vars

\* A worker consumes after a connection attempt of its own failed by
\* socket.error.
C34_Witness ==
    \E w \in Pids :
        /\ WorkerState(w) = "CONSUMING"
        /\ wexc[w] = [kind |-> "socket.error", at |-> "connect"]

\* How many bindings of the list bs have a handler that resolves.
Resolvable(bs) == Cardinality({k \in 1..Len(bs) : Resolves(bs[k])})

\* The consumers one initialization is to register: one for each resolvable
\* production binding and, in debug mode, one for each resolvable debug
\* binding.
ConsumersDue ==
    Resolvable(Bindings) + (IF DebugEnabled THEN Resolvable(BindingsDebug) ELSE 0)

\* C35: after every initialization, the first and each later one, the new
\* channel carries one consumer for each resolvable production binding and
\* (debug mode) one for each resolvable debug binding, the same number each
\* time; and the configured binding list is never modified.
C35_ReinitRegistersSameConsumers ==
    /\ \A w \in Pids :
           wpc[w] \in ConsumePcs => Cardinality(consumers[w]) = ConsumersDue
    /\ bindings = Bindings

\* C36: once a termination signal has ended drain_queue's consume loop, the
\* consumer it registered has been cancelled and its broker connection has
\* been closed: the process does not exit with either left behind.
C36_DrainInterruptedCleansUp ==
    (admin.op = "drain_queue" /\ admin.pc = "exited") =>
        /\ ~ admin.consuming
        /\ admin.conns = 0

\* C37: an administrative operation that has returned has closed every broker
\* connection it opened, whichever way it returned, the declined confirmation
\* included.
C37_AdminClosesItsConnections ==
    (admin.op # "none" /\ admin.pc = "done") => admin.conns = 0

\* C38: drain_queue of a configured queue that no configured binding names,
\* once confirmed, does not fail with an error: it returns, and it has not
\* bound the queue or started to consume from it.
C38_UnboundQueueIsReported ==
    (/\ admin.op = "drain_queue"
     /\ Configured(admin.queue)
     /\ LookupExchange(bindings, admin.queue) = "unbound") =>
        /\ admin.pc # "raised"
        /\ ~ admin.consuming

============================================================================
